---- MODULE Spec2Model ----
(***************************************************************************)
(* Model of src/gen.py, the feature classifier and token aggregator: the   *)
(* run loop of main(), the gateway http_json_chat with its retries, the    *)
(* JSON recovery, the classification cache, the selection policy, the      *)
(* token index and the snapshots written after every file.                 *)
(*                                                                         *)
(* Conventions                                                             *)
(*  - A JSON value is a tagged record [t |-> tag, v |-> value]:            *)
(*      "null"  None                                                       *)
(*      "num"   n: a number; scores and weights are kept in hundredths     *)
(*              (0.55 is 55), so that sums and comparisons are exact       *)
(*      "str"   s: a Python str used as a symbol (a slug, a model name)    *)
(*      "chars" c: a Python str kept character by character (a token)      *)
(*      "text"  x: a Python str kept as a sequence of lexical items (the   *)
(*              oracle's free-text answer, see the JSON recovery)          *)
(*      "list"  l: a list, as a sequence                                   *)
(*      "dict"  d: a dict, as the sequence of its <<key, value>> pairs in  *)
(*              insertion order (Python dicts are ordered)                 *)
(*  - An evaluation that may raise returns [ok |-> FALSE] for the raise    *)
(*    and [ok |-> TRUE, v |-> result] otherwise.                           *)
(***************************************************************************)
EXTENDS Integers, Sequences, FiniteSets, TLC

(***************************************************************************)
(* Bounds of the model                                                     *)
(***************************************************************************)
\* runs of the program in one behaviour
MaxRuns == 2
\* faults of the environment in one behaviour: an interruption, an edit of a
\* source file, a failed write, a malformed answer of the oracle, the first
\* failed request of a gateway call and every change of the kind of failure
\* within the call
MaxFaults == 1
\* features in a score map the selection policy is examined on
MaxScored == 3
\* the suggestions of one list handed to merge_token_index
MaxSuggestions == 2
\* the loads, merges and saves applied to one token index
MaxIndexSteps == 3
\* the largest k asked of top_tokens_for_feature
MaxTopK == 2
\* the bytes of a file whose fingerprint is taken
MaxFileLen == 2
\* the merges applied to an index that starts empty
MaxTallySteps == 3

(***************************************************************************)
(* Program constants                                                       *)
(***************************************************************************)
TAXONOMY_VERSION == 2
\* SCORE_MIN = 0.55, in hundredths
SCORE_MIN == 55
TOP_K_FALLBACK == 2
\* http_json_chat(..., tries = 2)
Tries == 2
\* weight default 0.6 of a token suggestion, in hundredths
DefaultWeight == 60
\* weight_sum += 1.0 per token of the legacy nested shape, in hundredths
UnitWeight == 100
\* examples cap of a token entry
MaxExamples == 6
\* _norm_token truncates to 64 characters
MaxTokenLen == 64
\* _valid_token rejects tokens shorter than 2 characters
MinTokenLen == 2
LM_MODEL == "qwen2.5-coder-7b-instruct"

\* the slugs of FEATURES, in order
FeatureSlugs ==
    << "snapshots", "state", "composer_runtime", "effects", "frame_clock",
       "layout", "modifiers", "rendering", "animation", "composition_local",
       "input", "platform_desktop", "app_shell", "widgets", "subcompose",
       "diagnostics" >>

\* the endpoints of http_json_chat, in order
Endpoints == << "/v1/chat/completions", "/v1/completions" >>

(***************************************************************************)
(* Generic helpers                                                         *)
(***************************************************************************)
Range(s) == { s[i] : i \in DOMAIN s }

Min2(a, b) == IF a < b THEN a ELSE b

\* s[:n]
Take(s, n) == SubSeq(s, 1, Min2(n, Len(s)))

Raise == [ok |-> FALSE]
Ok(x) == [ok |-> TRUE, v |-> x]

(***************************************************************************)
(* JSON values                                                             *)
(***************************************************************************)
JNull == [t |-> "null"]
JNum(n) == [t |-> "num", n |-> n]
JStr(s) == [t |-> "str", s |-> s]
JChars(s) == [t |-> "chars", c |-> s]
JText(s) == [t |-> "text", x |-> s]
JList(s) == [t |-> "list", l |-> s]
JDict(s) == [t |-> "dict", d |-> s]
JEmptyDict == JDict(<< >>)

IsStr(j) == j.t \in {"str", "chars", "text"}

\* Python truthiness of a JSON value
Truthy(j) ==
    CASE j.t = "null" -> FALSE
      [] j.t = "num" -> j.n # 0
      [] j.t = "str" -> j.s # ""
      [] j.t = "chars" -> j.c # << >>
      [] j.t = "text" -> j.x # << >>
      [] j.t = "list" -> j.l # << >>
      [] j.t = "dict" -> j.d # << >>

\* the keys of the pair sequence of a dict, in order
PairKeys(ps) == [i \in DOMAIN ps |-> ps[i][1]]

HasKey(ps, k) == \E i \in DOMAIN ps : ps[i][1] = k

\* ps[k], for a key that is present
Lookup(ps, k) == ps[CHOOSE i \in DOMAIN ps : ps[i][1] = k][2]

\* dict.get(k, default) on the pair sequence of a dict
Get(ps, k, default) == IF HasKey(ps, k) THEN Lookup(ps, k) ELSE default

\* d[k] = val on the pair sequence: in place for a present key, appended otherwise
Put(ps, k, val) ==
    IF HasKey(ps, k)
    THEN [i \in DOMAIN ps |-> IF ps[i][1] = k THEN <<k, val>> ELSE ps[i]]
    ELSE Append(ps, <<k, val>>)

\* list(dict.fromkeys(paths)): duplicates dropped, first occurrences kept in order
RECURSIVE Dedupe(_)
Dedupe(s) ==
    IF s = << >> THEN << >>
    ELSE LET init == Dedupe(SubSeq(s, 1, Len(s) - 1))
             last == s[Len(s)]
         IN  IF last \in Range(init) THEN init ELSE Append(init, last)

(***************************************************************************)
(* Token normalisation: _norm_token and _valid_token                       *)
(***************************************************************************)
Whitespace == {" ", "\t", "\n"}

LowerAlpha ==
    {"a","b","c","d","e","f","g","h","i","j","k","l","m",
     "n","o","p","q","r","s","t","u","v","w","x","y","z"}

Digits == {"0","1","2","3","4","5","6","7","8","9"}

\* the character class [a-z0-9_+\-/\. ]
AllowedChars == LowerAlpha \cup Digits \cup {"_", "+", "-", "/", ".", " "}

\* str.lower() on one character
LowerChar(c) ==
    CASE c = "A" -> "a" [] c = "B" -> "b" [] c = "C" -> "c" [] c = "D" -> "d"
      [] c = "E" -> "e" [] c = "F" -> "f" [] c = "G" -> "g" [] c = "H" -> "h"
      [] c = "I" -> "i" [] c = "J" -> "j" [] c = "K" -> "k" [] c = "L" -> "l"
      [] c = "M" -> "m" [] c = "N" -> "n" [] c = "O" -> "o" [] c = "P" -> "p"
      [] c = "Q" -> "q" [] c = "R" -> "r" [] c = "S" -> "s" [] c = "T" -> "t"
      [] c = "U" -> "u" [] c = "V" -> "v" [] c = "W" -> "w" [] c = "X" -> "x"
      [] c = "Y" -> "y" [] c = "Z" -> "z" [] OTHER -> c

RECURSIVE LStrip(_)
LStrip(s) ==
    IF s # << >> /\ s[1] \in Whitespace THEN LStrip(Tail(s)) ELSE s

RECURSIVE RStrip(_)
RStrip(s) ==
    IF s # << >> /\ s[Len(s)] \in Whitespace
    THEN RStrip(SubSeq(s, 1, Len(s) - 1))
    ELSE s

\* str.strip()
Strip(s) == RStrip(LStrip(s))

\* re.sub(r"[^a-z0-9_+\-/\. ]+", "", t)
KeepAllowed(s) == SelectSeq(s, LAMBDA c : c \in AllowedChars)

\* re.sub(r"\s+", " ", t): every run of whitespace becomes one space
RECURSIVE CollapseWs(_)
CollapseWs(s) ==
    IF s = << >> THEN << >>
    ELSE IF s[1] \in Whitespace
         THEN <<" ">> \o CollapseWs(LStrip(s))
         ELSE <<s[1]>> \o CollapseWs(Tail(s))

\* _norm_token: strip, lower, drop the characters outside the class,
\* collapse whitespace, cut to 64 characters
NormToken(t) ==
    LET stripped == Strip(t)
        lowered == [i \in DOMAIN stripped |-> LowerChar(stripped[i])]
    IN  Take(CollapseWs(KeepAllowed(lowered)), MaxTokenLen)

\* GENERIC_TOKENS
GENERIC_TOKENS ==
    { <<"s","t","a","t","e">>, <<"r","u","n","t","i","m","e">>,
      <<"s","y","s","t","e","m">>, <<"v","a","l","u","e">>,
      <<"d","a","t","a">>, <<"i","t","e","m">>, <<"n","o","d","e">>,
      <<"l","a","y","o","u","t">>, <<"r","e","n","d","e","r">>,
      <<"f","u","n","c","t","i","o","n">>, <<"s","t","r","u","c","t">>,
      <<"t","r","a","i","t">> }

\* _valid_token
ValidToken(tok) ==
    /\ Len(tok) >= MinTokenLen
    /\ tok \notin GENERIC_TOKENS

(***************************************************************************)
(* JSON recovery: _extract_json_blob and json.loads on the oracle's answer  *)
(*                                                                         *)
(* The answer is a sequence of lexical items:                              *)
(*   [k |-> "fence"]   three backticks                                     *)
(*   [k |-> "lang"]    the word json (any case)                            *)
(*   [k |-> "ws"]      a run of whitespace                                 *)
(*   [k |-> "prose"]   commentary holding no brace and no fence            *)
(*   [k |-> "lbrace"], [k |-> "rbrace"]   a brace of the commentary        *)
(*   [k |-> "json", v |-> j]   the serialisation of the JSON value j; j is *)
(*        a dict (the text starts with { and ends with }) or holds no      *)
(*        dict at all (the text holds no brace)                            *)
(***************************************************************************)
Fence == [k |-> "fence"]
Lang == [k |-> "lang"]
Ws == [k |-> "ws"]
Prose == [k |-> "prose"]
LBrace == [k |-> "lbrace"]
RBrace == [k |-> "rbrace"]
Json(j) == [k |-> "json", v |-> j]

IsDictItem(it) == it.k = "json" /\ it.v.t = "dict"
HasOpenBrace(it) == it.k = "lbrace" \/ IsDictItem(it)
HasCloseBrace(it) == it.k = "rbrace" \/ IsDictItem(it)

RECURSIVE LStripItems(_)
LStripItems(s) ==
    IF s # << >> /\ s[1].k = "ws" THEN LStripItems(Tail(s)) ELSE s

RECURSIVE RStripItems(_)
RStripItems(s) ==
    IF s # << >> /\ s[Len(s)].k = "ws"
    THEN RStripItems(SubSeq(s, 1, Len(s) - 1))
    ELSE s

StripItems(s) == RStripItems(LStripItems(s))

\* positions of the fences of an answer
FencePositions(s) == { i \in DOMAIN s : s[i].k = "fence" }

\* re.search(r"```(?:json)?\s*(.*?)\s*```", s, re.S | re.I): the leftmost match
\* opens at the first fence and closes at the next one; group(1) is what lies
\* between them, after an optional json tag, without surrounding whitespace
FencedGroup(s) ==
    LET open == CHOOSE i \in FencePositions(s) :
                    \A j \in FencePositions(s) : i <= j
        close == CHOOSE i \in FencePositions(s) :
                    i > open /\ \A j \in FencePositions(s) : j > open => i <= j
        from == IF open + 1 < close /\ s[open + 1].k = "lang"
                THEN open + 2 ELSE open + 1
    IN  StripItems(SubSeq(s, from, close - 1))

\* _extract_json_blob
ExtractJsonBlob(s) ==
    IF s = << >> THEN s
    ELSE IF Cardinality(FencePositions(s)) >= 2 THEN FencedGroup(s)
    ELSE LET opens == { i \in DOMAIN s : HasOpenBrace(s[i]) }
             closes == { i \in DOMAIN s : HasCloseBrace(s[i]) }
         IN  IF opens # {} /\ closes # {}
             THEN LET first == CHOOSE i \in opens : \A j \in opens : i <= j
                      last == CHOOSE i \in closes : \A j \in closes : j <= i
                  IN  \* s.rfind("}") > s.find("{"), counted in characters
                      IF last > first \/ (last = first /\ IsDictItem(s[first]))
                      THEN SubSeq(s, first, last)
                      ELSE s
             ELSE s

\* json.loads on a str: the text is one JSON value with optional whitespace
\* around it ("{ }" is the empty dict); anything else raises
JsonLoads(s) ==
    LET body == StripItems(s)
    IN  IF Len(body) = 1 /\ body[1].k = "json" THEN Ok(body[1].v)
        ELSE IF /\ Len(body) >= 2
                /\ body[1].k = "lbrace"
                /\ body[Len(body)].k = "rbrace"
                /\ \A i \in 2 .. Len(body) - 1 : body[i].k = "ws"
             THEN Ok(JEmptyDict)
             ELSE Raise

\* data.get("choices", [{}])[0].get("message", {}).get("content", "")
ContentOf(data) ==
    IF data.t # "dict" THEN Raise
    ELSE LET choices == Get(data.d, "choices", JList(<<JEmptyDict>>))
         IN  IF choices.t # "list" \/ Len(choices.l) = 0 THEN Raise
             ELSE LET first == choices.l[1]
                  IN  IF first.t # "dict" THEN Raise
                      ELSE LET message == Get(first.d, "message", JEmptyDict)
                           IN  IF message.t # "dict" THEN Raise
                               ELSE Ok(Get(message.d, "content", JText(<< >>)))

\* the outcome of _extract_json_blob(content) followed by json.loads(clean):
\* "raise" an error outside the try (re.search on a truthy non-str),
\* "fail" json.loads raised inside the try, "value" the parsed value
ParseContent(content) ==
    IF content.t = "text"
    THEN LET r == JsonLoads(ExtractJsonBlob(content.x))
         IN  IF r.ok THEN [kind |-> "value", v |-> r.v] ELSE [kind |-> "fail"]
    ELSE IF Truthy(content) THEN [kind |-> "raise"] ELSE [kind |-> "fail"]

(***************************************************************************)
(* Feature Selection Policy (main, the candidates of a file)               *)
(***************************************************************************)
\* x placed behind every element whose score is at least its own
RECURSIVE InsertDesc(_, _)
InsertDesc(sorted, x) ==
    IF sorted = << >> THEN <<x>>
    ELSE IF sorted[1][2].n >= x[2].n
         THEN <<sorted[1]>> \o InsertDesc(Tail(sorted), x)
         ELSE <<x>> \o sorted

\* a ranking that leaves the items in the order of the score map
Ranked_Unsorted(pairs) == pairs

\* sorted(scores.items(), key=lambda kv: kv[1], reverse=True): by score
\* descending, equal scores in the order of the score map (the sort is stable)
RECURSIVE Ranked(_)
Ranked(pairs) ==
    IF pairs = << >> THEN << >>
    ELSE InsertDesc(Ranked(SubSeq(pairs, 1, Len(pairs) - 1)), pairs[Len(pairs)])

\* a selection without the fallback to the top of the ranking
Candidates_ThresholdOnly(pairs) ==
    PairKeys(SelectSeq(Ranked(pairs), LAMBDA kv : kv[2].n >= SCORE_MIN))

\* the slugs at or above SCORE_MIN, in rank order; the first TOP_K_FALLBACK
\* of the ranking when fewer than min(TOP_K_FALLBACK, len(ranked)) reach it
Candidates(pairs) ==
    LET ranked == Ranked(pairs)
        above == SelectSeq(ranked, LAMBDA kv : kv[2].n >= SCORE_MIN)
        chosen == IF Len(above) < Min2(TOP_K_FALLBACK, Len(ranked))
                  THEN Take(ranked, TOP_K_FALLBACK)
                  ELSE above
    IN  PairKeys(chosen)

\* the selection on the score value of a response: scores.items() raises on
\* a value that is no dict, v >= SCORE_MIN raises on a score that is no number
SelectCandidates(scores) ==
    IF scores.t # "dict" THEN Raise
    ELSE IF \E i \in DOMAIN scores.d : scores.d[i][2].t # "num" THEN Raise
    ELSE Ok(Candidates(scores.d))

(***************************************************************************)
(* Floating point                                                          *)
(*                                                                         *)
(* A Python float is an IEEE 754 binary64 number: 53 significant bits,     *)
(* every result rounded to the nearest one, ties to the even one.  The     *)
(* weights of the index are floats that are not negative and stay small,   *)
(* so a float is held here as a whole number of units of 2^-(4*LimbBits),  *)
(* written in limbs of LimbBits bits, the least significant limb first.    *)
(* A JSON number is given in hundredths: FloatOf(80) is float("0.8").      *)
(***************************************************************************)
\* the significant bits of a binary64 number
MantissaBits == 53
\* the bits of one limb
LimbBits == 15
LimbBase == 2^LimbBits

\* 0.0
FloatZero == <<0, 0, 0, 0, 0>>

\* the sum of two limb sequences of one length
RECURSIVE AddLimbs(_, _, _)
AddLimbs(a, b, carry) ==
    IF a = << >> THEN << >>
    ELSE LET t == a[1] + b[1] + carry
         IN  <<t % LimbBase>> \o AddLimbs(Tail(a), Tail(b), t \div LimbBase)

\* the number of bits of a limb sequence up to its highest bit set
BitLength(a) ==
    LET set == {j \in DOMAIN a : a[j] # 0}
    IN  IF set = {} THEN 0
        ELSE LET top == CHOOSE j \in set : \A k \in set : k <= j
             IN  (top - 1) * LimbBits
                 + (CHOOSE b \in 1..LimbBits : 2^(b-1) <= a[top] /\ a[top] < 2^b)

\* bit i of a limb sequence, bit 0 the lowest
Bit(a, i) == (a[(i \div LimbBits) + 1] \div 2^(i % LimbBits)) % 2

\* rounding of an exact value to MantissaBits significant bits, to the
\* nearest, ties to even; inexact tells that the exact value is above a
RoundToMantissa(a, inexact) ==
    LET drop == BitLength(a) - MantissaBits
    IN  IF drop <= 0 THEN a
        ELSE LET q == drop \div LimbBits
                 r == drop % LimbBits
                 below == \/ inexact
                          \/ \E j \in 1..((drop - 1) \div LimbBits) : a[j] # 0
                          \/ a[((drop - 1) \div LimbBits) + 1] % 2^((drop - 1) % LimbBits) # 0
                 trunc == [j \in DOMAIN a |->
                              IF j < q + 1 THEN 0
                              ELSE IF j = q + 1 THEN (a[j] \div 2^r) * 2^r
                              ELSE a[j]]
                 ulp == [j \in DOMAIN a |-> IF j = q + 1 THEN 2^r ELSE 0]
             IN  IF Bit(a, drop - 1) = 1 /\ (below \/ Bit(a, drop) = 1)
                 THEN AddLimbs(trunc, ulp, 0)
                 ELSE trunc

\* x + y of two floats
FloatAdd(x, y) == RoundToMantissa(AddLimbs(x, y, 0), FALSE)

\* the first n limbs of r/d after the point, the lowest first, and whether
\* the quotient goes on after them
RECURSIVE Fraction(_, _, _)
Fraction(r, d, n) ==
    IF n = 0 THEN [limbs |-> << >>, inexact |-> r # 0]
    ELSE LET rest == Fraction((r * LimbBase) % d, d, n - 1)
         IN  [limbs |-> rest.limbs \o <<(r * LimbBase) \div d>>,
              inexact |-> rest.inexact]

\* float of the JSON number h/100: the quotient with one limb more than a
\* float holds, rounded; the rounded value has that limb zero
FloatOf(h) ==
    LET f == Fraction(h % 100, 100, Len(FloatZero))
    IN  Tail(RoundToMantissa(f.limbs \o <<h \div 100>>, f.inexact))

\* x <= y for two limb sequences of one length
LimbsLeq(x, y) ==
    \/ x = y
    \/ \E j \in DOMAIN x : x[j] < y[j] /\ \A k \in DOMAIN x : k > j => x[k] = y[k]

\* x < y of two floats
FloatLess(x, y) == x # y /\ LimbsLeq(x, y)

\* the product of a limb sequence and a whole number
RECURSIVE MulLimbs(_, _, _)
MulLimbs(a, n, carry) ==
    IF a = << >> THEN << >>
    ELSE LET t == a[1] * n + carry
         IN  <<t % LimbBase>> \o MulLimbs(Tail(a), n, t \div LimbBase)

\* the quotient of a limb sequence by a whole number, from the highest limb
\* down, r the remainder of the limbs above; inexact when a remainder is left
RECURSIVE DivLimbs(_, _, _)
DivLimbs(a, n, r) ==
    IF a = << >> THEN [limbs |-> << >>, inexact |-> r # 0]
    ELSE LET cur == r * LimbBase + a[Len(a)]
             rest == DivLimbs(SubSeq(a, 1, Len(a) - 1), n, cur % n)
         IN  [limbs |-> Append(rest.limbs, cur \div n), inexact |-> rest.inexact]

\* n * x of an int and a float
FloatMul(n, x) == RoundToMantissa(MulLimbs(x, n, 0), FALSE)

\* x / n of a float and an int that is not zero; x / 2 is 0.5 * x
FloatDiv(x, n) ==
    LET q == DivLimbs(<<0>> \o x, n, 0)
    IN  Tail(RoundToMantissa(q.limbs, q.inexact))

(***************************************************************************)
(* Token index                                                             *)
(*                                                                         *)
(* The index document (tokens_db) is the pair sequence of a dict whose     *)
(* keys are character sequences: taxonomy_version, model, token_index.     *)
(* The value of token_index is a dict from token to entry; an entry is     *)
(*   [global |-> [count, weight_sum, examples, last_seen],                 *)
(*    by_feature |-> a function slug -> [count, weight_sum]]               *)
(*   examples is a sequence of file paths, last_seen the clock at a merge, *)
(*   weight_sum a float.                                                   *)
(***************************************************************************)
K_taxonomy_version ==
    <<"t","a","x","o","n","o","m","y","_","v","e","r","s","i","o","n">>
K_model == <<"m","o","d","e","l">>
K_token_index == <<"t","o","k","e","n","_","i","n","d","e","x">>
K_features == <<"f","e","a","t","u","r","e","s">>

NewEntry ==
    [global |-> [count |-> 0, weight_sum |-> FloatZero, examples |-> << >>, last_seen |-> 0],
     by_feature |-> << >>]

NewFeatureEntry == [count |-> 0, weight_sum |-> FloatZero]

\* {"taxonomy_version": None, "model": None, "token_index": {}}
EmptyDb ==
    << <<K_taxonomy_version, JNull>>, <<K_model, JNull>>,
       <<K_token_index, JEmptyDict>> >>

\* by_feature.setdefault(slug, {"count": 0, "weight_sum": 0.0})
FeatureEntryOf(by_feature, slug) ==
    IF slug \in DOMAIN by_feature THEN by_feature[slug] ELSE NewFeatureEntry

\* a merge that appends the path whenever it is absent, however many there are
MergeOne_NoCap(ent, slug, file_path, w, now) ==
    LET g == ent.global
        fe == FeatureEntryOf(ent.by_feature, slug)
        examples == IF file_path \notin Range(g.examples)
                    THEN Append(g.examples, file_path)
                    ELSE g.examples
    IN  [global |-> [count |-> g.count + 1,
                     weight_sum |-> FloatAdd(g.weight_sum, w),
                     examples |-> examples,
                     last_seen |-> now],
         by_feature |-> (slug :> [count |-> fe.count + 1,
                                  weight_sum |-> FloatAdd(fe.weight_sum, w)])
                        @@ ent.by_feature]

\* a merge that leaves the entry with the merged feature alone
MergeOne_FreshFeatures(ent, slug, file_path, w, now) ==
    LET g == ent.global
        fe == FeatureEntryOf(ent.by_feature, slug)
        examples == IF Len(g.examples) < MaxExamples /\ file_path \notin Range(g.examples)
                    THEN Append(g.examples, file_path)
                    ELSE g.examples
    IN  [global |-> [count |-> g.count + 1,
                     weight_sum |-> FloatAdd(g.weight_sum, w),
                     examples |-> examples,
                     last_seen |-> now],
         by_feature |-> (slug :> [count |-> fe.count + 1,
                                  weight_sum |-> FloatAdd(fe.weight_sum, w)])]

\* a merge that counts the token and records no example
MergeOne_NoExample(ent, slug, file_path, w, now) ==
    LET g == ent.global
        fe == FeatureEntryOf(ent.by_feature, slug)
    IN  [global |-> [count |-> g.count + 1,
                     weight_sum |-> FloatAdd(g.weight_sum, w),
                     examples |-> g.examples,
                     last_seen |-> now],
         by_feature |-> (slug :> [count |-> fe.count + 1,
                                  weight_sum |-> FloatAdd(fe.weight_sum, w)])
                        @@ ent.by_feature]

\* a merge that keeps the last weight instead of adding it
MergeOne_LastWeight(ent, slug, file_path, w, now) ==
    LET g == ent.global
        fe == FeatureEntryOf(ent.by_feature, slug)
        examples == IF Len(g.examples) < MaxExamples /\ file_path \notin Range(g.examples)
                    THEN Append(g.examples, file_path)
                    ELSE g.examples
    IN  [global |-> [count |-> g.count + 1,
                     weight_sum |-> w,
                     examples |-> examples,
                     last_seen |-> now],
         by_feature |-> (slug :> [count |-> fe.count + 1, weight_sum |-> w])
                        @@ ent.by_feature]

\* the body of the loop of merge_token_index for one accepted suggestion
MergeOne(ent, slug, file_path, w, now) ==
    LET g == ent.global
        fe == FeatureEntryOf(ent.by_feature, slug)
        examples == IF Len(g.examples) < MaxExamples /\ file_path \notin Range(g.examples)
                    THEN Append(g.examples, file_path)
                    ELSE g.examples
    IN  [global |-> [count |-> g.count + 1,
                     weight_sum |-> FloatAdd(g.weight_sum, w),
                     examples |-> examples,
                     last_seen |-> now],
         by_feature |-> (slug :> [count |-> fe.count + 1,
                                  weight_sum |-> FloatAdd(fe.weight_sum, w)])
                        @@ ent.by_feature]

\* the loop of merge_token_index over the suggestions, on the value of
\* token_index: idx.setdefault raises on an index that is no dict
RECURSIVE MergeLoop(_, _, _, _, _)
MergeLoop(idx, slug, file_path, suggestions, now) ==
    IF suggestions = << >> THEN Ok(idx)
    ELSE LET s == suggestions[1]
             tok == NormToken(s.token)
         IN  IF ~ValidToken(tok)
             THEN MergeLoop(idx, slug, file_path, Tail(suggestions), now)
             ELSE IF idx.t # "dict" THEN Raise
             ELSE LET ent == Get(idx.d, tok, NewEntry)
                      next == JDict(Put(idx.d, tok,
                                        MergeOne(ent, slug, file_path, FloatOf(s.weight), now)))
                  IN  MergeLoop(next, slug, file_path, Tail(suggestions), now)

\* merge_token_index(db, taxonomy_version, model_name, slug, file_path, suggestions)
MergeTokenIndex(db, taxonomy_version, model_name, slug, file_path, suggestions, now) ==
    LET stamped == Put(Put(db, K_taxonomy_version, JNum(taxonomy_version)),
                       K_model, JStr(model_name))
        withIdx == IF HasKey(stamped, K_token_index) THEN stamped
                   ELSE Put(stamped, K_token_index, JEmptyDict)
        merged == MergeLoop(Lookup(withIdx, K_token_index), slug, file_path,
                            suggestions, now)
    IN  IF merged.ok THEN Ok(Put(withIdx, K_token_index, merged.v)) ELSE Raise

\* the merges of main for the answer of one token call, feature by feature
RECURSIVE MergeAll(_, _, _, _)
MergeAll(db, toks_by_feat, file_path, now) ==
    IF toks_by_feat = << >> THEN Ok(db)
    ELSE LET m == MergeTokenIndex(db, TAXONOMY_VERSION, LM_MODEL,
                                  toks_by_feat[1][1], file_path, toks_by_feat[1][2], now)
         IN  IF m.ok THEN MergeAll(m.v, Tail(toks_by_feat), file_path, now) ELSE Raise

(***************************************************************************)
(* top_tokens_for_feature                                                  *)
(***************************************************************************)
\* the characters of a normalised token in the order of their code points
CodePoints ==
    <<" ", "+", "-", ".", "/", "0", "1", "2", "3", "4", "5", "6", "7", "8", "9", "_",
      "a", "b", "c", "d", "e", "f", "g", "h", "i", "j", "k", "l", "m",
      "n", "o", "p", "q", "r", "s", "t", "u", "v", "w", "x", "y", "z">>

\* a < b of two strs
RECURSIVE StrLess(_, _)
StrLess(a, b) ==
    IF b = << >> THEN FALSE
    ELSE IF a = << >> THEN TRUE
    ELSE IF a[1] = b[1] THEN StrLess(Tail(a), Tail(b))
    ELSE (CHOOSE i \in DOMAIN CodePoints : CodePoints[i] = a[1])
         < (CHOOSE i \in DOMAIN CodePoints : CodePoints[i] = b[1])

\* avg_w = weight_sum / max(1, count); score = count * (0.5 + 0.5 * avg_w)
Score(fe) ==
    LET avg_w == FloatDiv(fe.weight_sum, IF fe.count > 1 THEN fe.count ELSE 1)
    IN  FloatMul(fe.count, FloatAdd(FloatOf(50), FloatDiv(avg_w, 2)))

\* a sort that leaves the list as it is
SortedDesc_Unsorted(scored) == scored

\* scored.sort(reverse=True) on the tuples (score, tok)
RECURSIVE SortedDesc(_)
SortedDesc(scored) ==
    IF scored = << >> THEN << >>
    ELSE LET x == scored[1]
             rest == SortedDesc(Tail(scored))
             Above(y) == \/ FloatLess(x.score, y.score)
                         \/ x.score = y.score /\ StrLess(x.tok, y.tok)
         IN  SelectSeq(rest, Above) \o <<x>> \o SelectSeq(rest, LAMBDA y : ~Above(y))

\* top_tokens_for_feature(db, slug, k) for k >= 0; idx.items() raises on an
\* index that is no dict
TopTokensForFeature(db, slug, k) ==
    LET index == Get(db, K_token_index, JEmptyDict)
    IN  IF index.t # "dict" THEN Raise
        ELSE LET of == SelectSeq(index.d, LAMBDA e : slug \in DOMAIN e[2].by_feature)
                 scored == [i \in DOMAIN of |->
                               [score |-> Score(of[i][2].by_feature[slug]),
                                tok |-> of[i][1]]]
                 sorted == Take(SortedDesc(scored), k)
             IN  Ok([i \in DOMAIN sorted |-> sorted[i].tok])

(***************************************************************************)
(* lm_tokens_for_features: the normalisation of the parsed answer          *)
(***************************************************************************)
\* one element t of a feature's array: a str becomes a suggestion of weight
\* 0.6, a dict gives str(t.get("token", "")) and float(t.get("weight", 0.6)),
\* anything else is skipped ("skip"); float() raises on a weight that is no number
Suggestion(t) ==
    IF t.t = "chars" THEN [kind |-> "ok", s |-> [token |-> t.c, weight |-> DefaultWeight]]
    ELSE IF t.t = "dict"
         THEN LET token == Get(t.d, "token", JChars(<< >>))
                  weight == Get(t.d, "weight", JNum(DefaultWeight))
                  name == IF token.t = "chars" THEN token.c
                          ELSE <<"N","o","n","e">>   \* str(None)
              IN  IF weight.t # "num" THEN [kind |-> "raise"]
                  ELSE [kind |-> "ok", s |-> [token |-> name, weight |-> weight.n]]
         ELSE [kind |-> "skip"]

\* the elements "for t in arr" visits: those of a list, the characters of a
\* str, the keys of a dict; a number or None is not iterable
Elements(arr) ==
    CASE arr.t = "list" -> Ok(arr.l)
      [] arr.t = "chars" -> Ok([i \in DOMAIN arr.c |-> JChars(<<arr.c[i]>>)])
      [] arr.t = "dict" -> Ok([i \in DOMAIN arr.d |-> JChars(arr.d[i][1])])
      [] OTHER -> Raise

RECURSIVE NormalizeElements(_)
NormalizeElements(ts) ==
    IF ts = << >> THEN Ok(<< >>)
    ELSE LET head == Suggestion(ts[1])
             rest == NormalizeElements(Tail(ts))
         IN  IF head.kind = "raise" \/ ~rest.ok THEN Raise
             ELSE IF head.kind = "skip" THEN rest
             ELSE Ok(<<head.s>> \o rest.v)

RECURSIVE NormalizeFeatures(_)
NormalizeFeatures(pairs) ==
    IF pairs = << >> THEN Ok(<< >>)
    ELSE LET elems == Elements(pairs[1][2])
             norm == IF elems.ok THEN NormalizeElements(elems.v) ELSE Raise
             rest == NormalizeFeatures(Tail(pairs))
         IN  IF ~norm.ok \/ ~rest.ok THEN Raise
             ELSE Ok(<< <<pairs[1][1], norm.v>> >> \o rest.v)

\* the loop "for slug, arr in raw.get("features", {}).items()" building out
TokensOf(raw) ==
    IF raw.t # "dict" THEN Raise
    ELSE LET feats == Get(raw.d, "features", JEmptyDict)
         IN  IF feats.t # "dict" THEN Raise ELSE NormalizeFeatures(feats.d)

(***************************************************************************)
(* Snapshot files                                                          *)
(*                                                                         *)
(* A file is [state |-> "absent"], [state |-> "corrupt"] (its text is no   *)
(* JSON: a write that failed part-way) or [state |-> "json", doc |-> d].   *)
(* The document of the classification cache is a record that may lack      *)
(* fields; the document of the token index is a JSON value.                *)
(***************************************************************************)
NoFile == [state |-> "absent"]
CorruptFile == [state |-> "corrupt"]
JsonFile(d) == [state |-> "json", doc |-> d]

\* load_classify_cache
LoadClassifyCache(file) ==
    IF file.state = "json" THEN file.doc ELSE << >>

\* a preparation that keeps the records of another taxonomy version
PrepareCache_NoInvalidation(loaded, no_cache) ==
    IF no_cache THEN [taxonomy_version |-> TAXONOMY_VERSION, files |-> << >>]
    ELSE [taxonomy_version |-> TAXONOMY_VERSION,
          files |-> IF "files" \in DOMAIN loaded THEN loaded.files ELSE << >>]

\* the cache main works on, lines 642-657: setdefault of both fields, the
\* reset of --no-cache, the invalidation on a changed taxonomy version
PrepareCache(loaded, no_cache) ==
    LET c1 == IF "taxonomy_version" \in DOMAIN loaded THEN loaded
              ELSE loaded @@ [taxonomy_version |-> TAXONOMY_VERSION]
        c2 == IF "files" \in DOMAIN c1 THEN c1 ELSE c1 @@ [files |-> << >>]
        c3 == IF no_cache
              THEN [taxonomy_version |-> TAXONOMY_VERSION, files |-> << >>]
              ELSE c2
    IN  IF c3.taxonomy_version # TAXONOMY_VERSION
        THEN [taxonomy_version |-> TAXONOMY_VERSION, files |-> << >>]
        ELSE c3

\* the legacy nested shape, one token t of one feature slug
LoadNestedToken(idx, slug, t) ==
    LET tok == NormToken(t.c)
    IN  IF ~ValidToken(tok) THEN idx
        ELSE LET ent == Get(idx, tok, NewEntry)
                 fe == FeatureEntryOf(ent.by_feature, slug)
             IN  Put(idx, tok,
                     [global |-> [ent.global EXCEPT !.count = @ + 1,
                                                    !.weight_sum = FloatAdd(@, FloatOf(UnitWeight))],
                      by_feature |-> (slug :> [count |-> fe.count + 1,
                                               weight_sum |-> FloatAdd(fe.weight_sum, FloatOf(UnitWeight))])
                                     @@ ent.by_feature])

RECURSIVE LoadNestedTokens(_, _, _)
LoadNestedTokens(idx, slug, toks) ==
    IF toks = << >> THEN Ok(idx)
    ELSE IF toks[1].t # "chars" THEN Raise
    ELSE LoadNestedTokens(LoadNestedToken(idx, slug, toks[1]), slug, Tail(toks))

\* the legacy nested shape {"features": {slug: {"tokens": [...]}}}
RECURSIVE LoadNested(_, _)
LoadNested(idx, feats) ==
    IF feats = << >> THEN Ok(idx)
    ELSE LET meta == feats[1][2]
         IN  IF meta.t # "dict" THEN Raise
             ELSE LET got == Get(meta.d, "tokens", JNull)
                      toks == IF Truthy(got) THEN got ELSE JList(<< >>)
                  IN  IF toks.t # "list" THEN Raise
                      ELSE LET one == LoadNestedTokens(idx, feats[1][1], toks.l)
                           IN  IF one.ok THEN LoadNested(one.v, Tail(feats)) ELSE Raise

\* the flat shape token -> [paths], over the keys that hold a list
RECURSIVE LoadFlat(_, _, _, _)
LoadFlat(idx, raw, token_keys, now) ==
    IF token_keys = << >> THEN idx
    ELSE LET norm == NormToken(token_keys[1])
             paths == Lookup(raw, token_keys[1]).l
             rest == Tail(token_keys)
         IN  IF ~ValidToken(norm) THEN LoadFlat(idx, raw, rest, now)
             ELSE LET ent == Get(idx, norm, NewEntry)
                      upd == [ent EXCEPT !.global =
                                 [count |-> Len(paths),
                                  weight_sum |-> FloatOf(Len(paths) * UnitWeight),
                                  examples |-> Take(Dedupe(paths), MaxExamples),
                                  last_seen |-> now]]
                  IN  LoadFlat(Put(idx, norm, upd), raw, rest, now)

\* load_tokens_db
LoadTokensDb(file, now) ==
    IF file.state # "json" \/ file.doc.t # "dict" THEN EmptyDb
    ELSE LET raw == file.doc.d
             header == << <<K_taxonomy_version, Get(raw, K_taxonomy_version, JNull)>>,
                          <<K_model, Get(raw, K_model, JNull)>> >>
             token_keys == SelectSeq(PairKeys(raw),
                               LAMBDA k : /\ k \notin {K_taxonomy_version, K_model}
                                          /\ Lookup(raw, k).t = "list")
         IN  IF Truthy(Get(raw, K_token_index, JNull)) THEN raw
             ELSE IF Truthy(Get(raw, K_features, JNull))
             THEN LET feats == Lookup(raw, K_features)
                      idx == IF feats.t = "dict" THEN LoadNested(<< >>, feats.d) ELSE Raise
                  IN  IF idx.ok
                      THEN Append(header, <<K_token_index, JDict(idx.v)>>)
                      ELSE EmptyDb
             ELSE IF token_keys # << >>
             THEN Append(header,
                         <<K_token_index, JDict(LoadFlat(<< >>, raw, token_keys, now))>>)
             ELSE EmptyDb

\* the flat document save_tokens_db builds: taxonomy_version and model, then
\* out.update(token_map) with the de-duplicated examples of every entry that
\* has some; idx.items() raises on an index that is no dict
RECURSIVE FlatUpdate(_, _)
FlatUpdate(out, entries) ==
    IF entries = << >> THEN out
    ELSE LET examples == entries[1][2].global.examples
             next == IF examples # << >>
                     THEN Put(out, entries[1][1], JList(Dedupe(examples)))
                     ELSE out
         IN  FlatUpdate(next, Tail(entries))

\* a flat document that leaves the tokens out
FlatDoc_HeaderOnly(db) ==
    Ok(JDict(<< <<K_taxonomy_version, Get(db, K_taxonomy_version, JNull)>>,
                <<K_model, Get(db, K_model, JNull)>> >>))

FlatDoc(db) ==
    LET idx == Get(db, K_token_index, JEmptyDict)
        header == << <<K_taxonomy_version, Get(db, K_taxonomy_version, JNull)>>,
                     <<K_model, Get(db, K_model, JNull)>> >>
    IN  IF idx.t # "dict" THEN Raise ELSE Ok(JDict(FlatUpdate(header, idx.d)))

\* write_feature_map_json: slug -> the include list of the feature map
FeatureMapDoc(feature_map) ==
    [taxonomy_version |-> TAXONOMY_VERSION, features |-> feature_map]

(***************************************************************************)
(* Content Fingerprint                                                     *)
(*                                                                         *)
(* The bytes of a file are a sequence over "a", "b" (ASCII letters), "CR"  *)
(* and "LF" (carriage return and line feed), "FF" and "FE" (bytes that     *)
(* are no valid UTF-8).                                                    *)
(***************************************************************************)
InvalidBytes == {"FF", "FE"}

\* the newline translation of a file opened in text mode: "\r\n" and "\r"
\* are read as "\n"
RECURSIVE UniversalNewlines(_)
UniversalNewlines(text) ==
    IF text = << >> THEN << >>
    ELSE IF text[1] = "CR"
         THEN <<"LF">> \o UniversalNewlines(
                  IF Len(text) >= 2 /\ text[2] = "LF" THEN Tail(Tail(text)) ELSE Tail(text))
         ELSE <<text[1]>> \o UniversalNewlines(Tail(text))

\* read_text: path.read_text with a strict decode, and on UnicodeDecodeError
\* with errors="ignore"; both give the text without the undecodable bytes,
\* newlines translated
ReadText(bytes) == UniversalNewlines(SelectSeq(bytes, LAMBDA b : b \notin InvalidBytes))

\* code.encode("utf-8"): every character of the text is ASCII here, one byte each
Utf8Encode(text) == [i \in DOMAIN text |-> text[i]]

\* sha1_bytes: the digest of a byte string, taken to be free of collisions
Sha1Bytes(b) == <<"sha1">> \o b

\* rs_files, in traversal order
Files == << "f1.rs", "f2.rs" >>

\* the contents a source file takes
Contents == { <<"a">>, <<"b">>, <<"a", "FF">> }

(***************************************************************************)
(* The oracle's answers                                                    *)
(***************************************************************************)
\* a chat-completions body whose first choice carries the content c
ChatBody(c) ==
    JDict(<< <<"choices",
               JList(<< JDict(<< <<"message", JDict(<< <<"content", c>> >>)>> >>) >>)>> >>)

\* commentary, then the object in a json fence, then commentary
Fenced(j) == JText(<<Prose, Ws, Fence, Lang, Ws, Json(j), Ws, Fence, Ws, Prose>>)

\* the bare object
Bare(j) == JText(<<Json(j)>>)

ScoresThree ==
    JDict(<< <<"scores", JDict(<< <<"snapshots", JNum(90)>>, <<"state", JNum(60)>>,
                                 <<"layout", JNum(20)>> >>)>>,
             <<"primary", JStr("snapshots")>>, <<"confidence", JNum(90)>> >>)

ScoresOne ==
    JDict(<< <<"scores", JDict(<< <<"layout", JNum(30)>> >>)>>,
             <<"primary", JStr("layout")>> >>)

ScoresPrimaryOnly == JDict(<< <<"primary", JStr("bogus")>> >>)

\* an answer without scores whose primary is a list
ScoresPrimaryList == JDict(<< <<"primary", JList(<<JStr("layout")>>)>> >>)

ScoresWrongType ==
    JDict(<< <<"scores", JDict(<< <<"state", JStr("high")>> >>)>>,
             <<"primary", JStr("state")>> >>)

\* the bodies of a 200 response to the scoring request
ScoreBodies ==
    { JNull,                                   \* the body "null"
      JList(<< >>),                             \* a body that is no object
      JEmptyDict,                               \* an object without choices
      JDict(<< <<"choices", JList(<< >>)>> >>), \* an empty choices list
      ChatBody(JNum(5)),                        \* a content that is no str
      ChatBody(JText(<<Prose>>)),               \* an answer without JSON
      ChatBody(JText(<<Prose, LBrace, Prose, RBrace>>)),
      ChatBody(Bare(JList(<<JNum(1)>>))),       \* JSON that is no object
      ChatBody(Bare(ScoresWrongType)),
      ChatBody(Bare(ScoresPrimaryOnly)),
      ChatBody(Bare(ScoresPrimaryList)),
      ChatBody(Bare(ScoresOne)),
      ChatBody(Fenced(ScoresThree)) }

TokSnap == <<"S", "n", "a", "p">>
TokState == <<"S", "t", "a", "t", "e">>
TokX == <<"x">>
TokFooBar == <<" ", "F", "o", "o", "!", " ", " ", "b", "a", "r">>

TokensGood ==
    JDict(<< <<"features",
               JDict(<< <<"snapshots",
                          JList(<< JDict(<< <<"token", JChars(TokSnap)>>,
                                            <<"weight", JNum(80)>> >>),
                                   JChars(TokState),
                                   JDict(<< <<"token", JChars(TokX)>> >>),
                                   JNum(7) >>)>> >>)>> >>)

TokensOtherSlug ==
    JDict(<< <<"features",
               JDict(<< <<"bogus", JList(<< JChars(TokFooBar), JChars(TokSnap) >>)>> >>)>> >>)

TokensBadWeight ==
    JDict(<< <<"features",
               JDict(<< <<"state",
                          JList(<< JDict(<< <<"token", JChars(TokSnap)>>,
                                            <<"weight", JNull>> >>) >>)>> >>)>> >>)

TokensBadArray ==
    JDict(<< <<"features", JDict(<< <<"state", JNum(3)>> >>)>> >>)

\* the bodies of a 200 response to the token request
TokenBodies ==
    { JNull,
      JDict(<< <<"choices", JList(<< >>)>> >>),
      ChatBody(JText(<<Prose>>)),
      ChatBody(Bare(JList(<< >>))),
      ChatBody(Bare(TokensBadWeight)),
      ChatBody(Bare(TokensBadArray)),
      ChatBody(Bare(JEmptyDict)),
      ChatBody(Bare(TokensOtherSlug)),
      ChatBody(Fenced(TokensGood)) }

Bodies(phase) == IF phase = "score_features" THEN ScoreBodies ELSE TokenBodies

\* a neutral result that names the first feature as primary
Sentinel_FirstFeature ==
    JDict(<< <<"scores", JEmptyDict>>, <<"primary", JStr(FeatureSlugs[1])>>,
             <<"confidence", JNum(0)>> >>)

\* {"scores": {}, "primary": "unknown", "confidence": 0.0}
Sentinel ==
    JDict(<< <<"scores", JEmptyDict>>, <<"primary", JStr("unknown")>>,
             <<"confidence", JNum(0)>> >>)

(***************************************************************************)
(* State                                                                   *)
(***************************************************************************)
VARIABLES
    \* the environment
    fileBytes,        \* path -> the bytes of the file
    diskCache,        \* .cache/feature_map_cache.json
    diskTokens,       \* docs/project-index/feature_tokens.json
    diskFeatureMap,   \* docs/project-index/feature_map.json
    diskFailures,     \* docs/project-index/llm_failures.json
    runs,             \* runs started so far; also int(time.time()) of a run
    faults,           \* faults of the environment so far
    \* the process
    pc,               \* the place of main
    no_cache,         \* args.no_cache
    classify_cache,   \* [taxonomy_version, files: path -> [sha1, primary, scores]]
    tokens_db,        \* the index document
    feature_map,      \* slug -> the include list
    FAILED_CALLS,     \* the failure ledger
    idx,              \* CURRENT_FILE_IDX
    file_hash, primary, scores, candidates,   \* locals of the loop body
    http,             \* the gateway call: phase, attempt, endpoint, requests sent
    data,             \* what the gateway call returned
    \* history of the current run, read by the properties only
    loaded,           \* the cache document as load_classify_cache returned it
    startCache,       \* the cache after lines 642-657
    lookups,          \* path -> "hit" | "miss" | "none"
    calls,            \* path -> the phases a gateway call was made for
    exhausted,        \* {<<path, phase>>}: the gateway calls whose every request failed
    merges,           \* the merge_token_index calls made: {[file, slug]}
    flushed,          \* the files whose flush made its three writes
    lastStop          \* how the run before ended, when it ended early

envVars == <<fileBytes, diskCache, diskTokens, diskFeatureMap, diskFailures,
             runs, faults>>
memVars == <<no_cache, classify_cache, tokens_db, feature_map, FAILED_CALLS>>
locVars == <<idx, file_hash, primary, scores, candidates, http, data>>
runHist == <<loaded, startCache, lookups, calls, exhausted, merges, flushed>>
vars == <<envVars, pc, memVars, locVars, runHist, lastStop>>

NumFiles == Len(Files)
rel == Files[idx]

Stopped == {"idle", "done", "aborted", "killed"}
Running == pc \notin Stopped

CanFault == faults < MaxFaults

NoCall == [phase |-> "none", attempt |-> 0, url |-> 0, log |-> << >>]
NoStop == [by |-> "none", at |-> "none", idx |-> 0, flushed |-> 0]

\* feature_map as main initialises it: every slug of FEATURES, and "unknown"
InitialFeatureMap == [s \in Range(FeatureSlugs) \cup {"unknown"} |-> << >>]

EmptyCache == [taxonomy_version |-> TAXONOMY_VERSION, files |-> << >>]

\* a cache written under an older taxonomy, holding a record for the first file
OldCache ==
    [taxonomy_version |-> TAXONOMY_VERSION - 1,
     files |-> (Files[1] :> [sha1 |-> Sha1Bytes(<<"a">>),
                             primary |-> JStr("state"),
                             scores |-> JDict(<< <<"state", JNum(80)>> >>)])]

\* the memory of a process that is not running
NoProcess ==
    /\ no_cache = FALSE
    /\ classify_cache = EmptyCache
    /\ tokens_db = EmptyDb
    /\ feature_map = InitialFeatureMap
    /\ FAILED_CALLS = << >>
    /\ idx = 0
    /\ file_hash = << >>
    /\ primary = JNull
    /\ scores = JNull
    /\ candidates = << >>
    /\ http = NoCall
    /\ data = JNull
    /\ loaded = << >>
    /\ startCache = EmptyCache
    /\ lookups = [f \in Range(Files) |-> "none"]
    /\ calls = [f \in Range(Files) |-> {}]
    /\ exhausted = {}
    /\ merges = {}
    /\ flushed = 0

Init ==
    /\ fileBytes = [f \in Range(Files) |-> IF f = Files[1] THEN <<"a">> ELSE <<"b">>]
    /\ diskCache \in {NoFile, JsonFile(OldCache)}
    /\ diskTokens = NoFile
    /\ diskFeatureMap = NoFile
    /\ diskFailures = NoFile
    /\ runs = 0
    /\ faults = 0
    /\ pc = "idle"
    /\ NoProcess
    /\ lastStop = NoStop

ResetLocals ==
    /\ file_hash' = << >>
    /\ primary' = JNull
    /\ scores' = JNull
    /\ candidates' = << >>
    /\ http' = NoCall
    /\ data' = JNull

\* the process is gone, and its memory with it
ProcessGone ==
    /\ no_cache' = FALSE
    /\ classify_cache' = EmptyCache
    /\ tokens_db' = EmptyDb
    /\ feature_map' = InitialFeatureMap
    /\ FAILED_CALLS' = << >>
    /\ idx' = 0
    /\ ResetLocals
    /\ loaded' = << >>
    /\ startCache' = EmptyCache
    /\ lookups' = [f \in Range(Files) |-> "none"]
    /\ calls' = [f \in Range(Files) |-> {}]
    /\ exhausted' = {}
    /\ merges' = {}
    /\ flushed' = 0

\* an unhandled exception ends the run
Abort ==
    /\ pc' = "aborted"
    /\ lastStop' = [by |-> "raise", at |-> pc, idx |-> idx, flushed |-> flushed]
    /\ ProcessGone

(***************************************************************************)
(* The environment                                                         *)
(***************************************************************************)
\* a source file is edited while no run is active
EditFile(f, c) ==
    /\ ~Running
    /\ CanFault
    /\ c # fileBytes[f]
    /\ fileBytes' = [fileBytes EXCEPT ![f] = c]
    /\ faults' = faults + 1
    /\ lastStop' = NoStop
    /\ UNCHANGED <<diskCache, diskTokens, diskFeatureMap, diskFailures, runs, pc,
                   memVars, locVars, runHist>>

\* the process is interrupted between two steps; the files stay as they are
Kill ==
    /\ Running
    /\ CanFault
    /\ faults' = faults + 1
    /\ pc' = "killed"
    /\ lastStop' = [by |-> "kill", at |-> pc, idx |-> idx, flushed |-> flushed]
    /\ ProcessGone
    /\ UNCHANGED <<fileBytes, diskCache, diskTokens, diskFeatureMap, diskFailures, runs>>

(***************************************************************************)
(* main, lines 612-665: the start of a run                                 *)
(***************************************************************************)
StartRun(nc) ==
    /\ ~Running
    /\ runs < MaxRuns
    /\ runs' = runs + 1
    /\ no_cache' = nc
    /\ LET raw == LoadClassifyCache(diskCache)
       IN  /\ loaded' = raw
           /\ classify_cache' = PrepareCache(raw, nc)
           /\ startCache' = PrepareCache(raw, nc)
    \* --no-cache unlinks the cache file
    /\ diskCache' = IF nc THEN NoFile ELSE diskCache
    /\ tokens_db' = LoadTokensDb(diskTokens, runs + 1)
    /\ feature_map' = InitialFeatureMap
    /\ FAILED_CALLS' = << >>
    /\ idx' = 1
    /\ ResetLocals
    /\ lookups' = [f \in Range(Files) |-> "none"]
    /\ calls' = [f \in Range(Files) |-> {}]
    /\ exhausted' = {}
    /\ merges' = {}
    /\ flushed' = 0
    /\ pc' = "file"
    /\ UNCHANGED <<fileBytes, diskTokens, diskFeatureMap, diskFailures, faults,
                   lastStop>>

(***************************************************************************)
(* main, lines 670-690: the fingerprint and the cache lookup of a file     *)
(***************************************************************************)
\* the hash of the file as main computes it
FileHash(f) == Sha1Bytes(Utf8Encode(ReadText(fileBytes[f])))

\* a lookup that takes a record without scores as absent
CacheHit_RetryDegraded(cache, f, h) ==
    /\ f \in DOMAIN cache.files
    /\ cache.files[f].sha1 = h
    /\ cache.files[f].scores # JEmptyDict

\* cached and cached.get("sha1") == file_hash
CacheHit(cache, f, h) == f \in DOMAIN cache.files /\ cache.files[f].sha1 = h

\* a gateway call for the file begins
StartCall(phase) ==
    /\ http' = [phase |-> phase, attempt |-> 1, url |-> 1, log |-> << >>]
    /\ calls' = [calls EXCEPT ![rel] = @ \cup {phase}]
    /\ data' = JNull

BeginFile ==
    /\ pc = "file"
    /\ LET h == FileHash(rel)
       IN  /\ file_hash' = h
           /\ IF CacheHit(classify_cache, rel, h)
              THEN /\ primary' = classify_cache.files[rel].primary
                   /\ scores' = classify_cache.files[rel].scores
                   /\ lookups' = [lookups EXCEPT ![rel] = "hit"]
                   /\ pc' = "select"
                   /\ UNCHANGED <<http, calls, data>>
              ELSE /\ lookups' = [lookups EXCEPT ![rel] = "miss"]
                   /\ StartCall("score_features")
                   /\ pc' = "http"
                   /\ UNCHANGED <<primary, scores>>
    /\ UNCHANGED <<envVars, memVars, idx, candidates, loaded, startCache,
                   exhausted, merges, flushed, lastStop>>

(***************************************************************************)
(* http_json_chat: one request per step                                    *)
(***************************************************************************)
\* the answers of a healthy oracle; any other body is a fault
WellFormed(phase) ==
    IF phase = "score_features"
    THEN {ChatBody(Fenced(ScoresThree)), ChatBody(Bare(ScoresOne))}
    ELSE {ChatBody(Fenced(TokensGood)), ChatBody(Bare(TokensOtherSlug))}

\* where main continues when the gateway call of the phase has returned
AfterCall(phase) ==
    IF phase = "score_features" THEN "score_content" ELSE "tokens_content"

\* the "status" of a ledger entry: None for a raised request, the status code
\* of a response that is not 200, 200 for a body that is no JSON
FailureStatus(kind) ==
    CASE kind = "exception" -> "None"
      [] kind = "status" -> "500"
      [] kind = "body" -> "200"

\* the entry http_json_chat appends for a failed request
Logged(kind) ==
    [phase |-> http.phase, file |-> rel, url |-> Endpoints[http.url],
     status |-> FailureStatus(kind)]

\* the request just made, as the history of the call records it
Sent(outcome) ==
    [attempt |-> http.attempt, url |-> Endpoints[http.url], outcome |-> outcome]

\* a failure costs a fault when it is the first of the call or of another
\* kind than the one before it
FailureCost(kind) ==
    IF http.log # << >> /\ http.log[Len(http.log)].outcome = kind THEN 0 ELSE 1

\* the request raises, answers with another status than 200, or answers 200
\* with a body that is no JSON: a ledger entry, then the next endpoint, the
\* next attempt, or None when the last attempt is spent
RequestFails(kind) ==
    /\ pc = "http"
    /\ faults + FailureCost(kind) <= MaxFaults
    /\ faults' = faults + FailureCost(kind)
    /\ FAILED_CALLS' = Append(FAILED_CALLS, Logged(kind))
    /\ IF http.url < Len(Endpoints)
       THEN /\ http' = [http EXCEPT !.url = @ + 1, !.log = Append(@, Sent(kind))]
            /\ UNCHANGED <<pc, data, exhausted>>
       ELSE IF http.attempt < Tries
       THEN /\ http' = [http EXCEPT !.attempt = @ + 1, !.url = 1,
                                    !.log = Append(@, Sent(kind))]
            /\ UNCHANGED <<pc, data, exhausted>>
       ELSE /\ http' = [http EXCEPT !.log = Append(@, Sent(kind))]
            /\ data' = JNull
            /\ exhausted' = exhausted \cup {<<rel, http.phase>>}
            /\ pc' = AfterCall(http.phase)
    /\ UNCHANGED <<fileBytes, diskCache, diskTokens, diskFeatureMap, diskFailures,
                   runs, no_cache, classify_cache, tokens_db, feature_map, idx,
                   file_hash, primary, scores, candidates, loaded, startCache,
                   lookups, calls, merges, flushed, lastStop>>

\* the request answers 200 with a JSON body: return r.json()
RequestSucceeds(body) ==
    /\ pc = "http"
    /\ body \in WellFormed(http.phase) \/ CanFault
    /\ faults' = IF body \in WellFormed(http.phase) THEN faults ELSE faults + 1
    /\ http' = [http EXCEPT !.log = Append(@, Sent("ok"))]
    /\ data' = body
    /\ pc' = AfterCall(http.phase)
    /\ UNCHANGED <<fileBytes, diskCache, diskTokens, diskFeatureMap, diskFailures,
                   runs, memVars, idx, file_hash, primary, scores, candidates,
                   runHist, lastStop>>

(***************************************************************************)
(* lm_score_features after the gateway call, and main lines 687-689        *)
(***************************************************************************)
\* the entry appended when the content of an answer does not parse
ContentParseEntry(phase) ==
    [phase |-> phase, file |-> rel, status |-> "None"]

\* lm_score_features without the test "data is None"
ScoreResponse_NoNoneCheck(d) ==
    LET c == ContentOf(d)
    IN  IF ~c.ok THEN Raise
        ELSE LET p == ParseContent(c.v)
             IN  CASE p.kind = "raise" -> Raise
                   [] p.kind = "fail" -> Ok([resp |-> Sentinel, parseFailed |-> TRUE])
                   [] p.kind = "value" -> Ok([resp |-> p.v, parseFailed |-> FALSE])

\* lm_score_features that returns the sentinel for a content that does not
\* parse without an entry in the ledger
ScoreResponse_SilentParseFailure(d) ==
    IF d.t = "null" THEN Ok([resp |-> Sentinel, parseFailed |-> FALSE])
    ELSE LET c == ContentOf(d)
         IN  IF ~c.ok THEN Raise
             ELSE LET p == ParseContent(c.v)
                  IN  CASE p.kind = "raise" -> Raise
                        [] p.kind = "fail" ->
                              Ok([resp |-> Sentinel, parseFailed |-> FALSE])
                        [] p.kind = "value" ->
                              Ok([resp |-> p.v, parseFailed |-> FALSE])

\* what lm_score_features returns for the value the gateway call returned:
\* the sentinel on None and on a content that does not parse (parseFailed),
\* else the parsed value; Raise for an exception outside the try
ScoreResponse(d) ==
    IF d.t = "null" THEN Ok([resp |-> Sentinel, parseFailed |-> FALSE])
    ELSE LET c == ContentOf(d)
         IN  IF ~c.ok THEN Raise
             ELSE LET p == ParseContent(c.v)
                  IN  CASE p.kind = "raise" -> Raise
                        [] p.kind = "fail" ->
                              Ok([resp |-> Sentinel, parseFailed |-> TRUE])
                        [] p.kind = "value" ->
                              Ok([resp |-> p.v, parseFailed |-> FALSE])

ScoreContent ==
    /\ pc = "score_content"
    /\ LET r == ScoreResponse(data)
       IN  IF ~r.ok \/ (r.ok /\ r.v.resp.t # "dict")
           THEN Abort   \* resp.get on a value that is no dict raises too
           ELSE /\ primary' = Get(r.v.resp.d, "primary", JStr("unknown"))
                /\ scores' = Get(r.v.resp.d, "scores", JEmptyDict)
                /\ classify_cache' =
                      [classify_cache EXCEPT !.files =
                          (rel :> [sha1 |-> file_hash,
                                   primary |-> Get(r.v.resp.d, "primary", JStr("unknown")),
                                   scores |-> Get(r.v.resp.d, "scores", JEmptyDict)])
                          @@ @]
                /\ FAILED_CALLS' =
                      IF r.v.parseFailed
                      THEN Append(FAILED_CALLS,
                                  ContentParseEntry("score_features_content_parse"))
                      ELSE FAILED_CALLS
                /\ pc' = "select"
                /\ UNCHANGED <<no_cache, tokens_db, feature_map, idx, file_hash,
                               candidates, http, data, runHist, lastStop>>
    /\ UNCHANGED envVars

(***************************************************************************)
(* main, lines 692-715: selection, assignment, the token call              *)
(***************************************************************************)
\* feature_map.setdefault(s, ...) and the append of a path not yet included
Include(fm, s, path) ==
    LET known == IF s \in DOMAIN fm THEN fm ELSE (s :> << >>) @@ fm
    IN  IF path \in Range(known[s]) THEN known
        ELSE [known EXCEPT ![s] = Append(@, path)]

RECURSIVE IncludeAll(_, _, _)
IncludeAll(fm, slugs, path) ==
    IF slugs = << >> THEN fm
    ELSE IncludeAll(Include(fm, slugs[1], path), Tail(slugs), path)

\* the key the primary label makes in feature_map; a list or a dict is
\* unhashable and setdefault raises
PrimaryKey(p) ==
    CASE p.t = "str" -> Ok(p.s)
      [] p.t = "null" -> Ok("None")
      [] p.t = "num" -> Ok("number")
      [] OTHER -> Raise

\* an assignment without the fallback to the primary label
Assign_NoFallback(fm, cands, p, path) == Ok(IncludeAll(fm, cands, path))

\* feature_map after lines 700-708
Assign(fm, cands, p, path) ==
    IF cands # << >> THEN Ok(IncludeAll(fm, cands, path))
    ELSE IF PrimaryKey(p).ok THEN Ok(Include(fm, PrimaryKey(p).v, path))
    ELSE Raise

Select ==
    /\ pc = "select"
    /\ LET sel == SelectCandidates(scores)
           fm == IF sel.ok THEN Assign(feature_map, sel.v, primary, rel) ELSE Raise
       IN  IF ~sel.ok \/ ~fm.ok
           THEN Abort
           ELSE /\ candidates' = sel.v
                /\ feature_map' = fm.v
                \* lm_tokens_for_features is called whenever there are candidates
                /\ IF sel.v # << >>
                   THEN /\ StartCall("tokens_for_features")
                        /\ pc' = "http"
                   ELSE /\ pc' = "save_cache"
                        /\ UNCHANGED <<http, calls, data>>
                /\ UNCHANGED <<no_cache, classify_cache, tokens_db, FAILED_CALLS,
                               idx, file_hash, primary, scores, loaded, startCache,
                               lookups, exhausted, merges, flushed, lastStop>>
    /\ UNCHANGED envVars

\* what lm_tokens_for_features returns for the value the gateway call
\* returned: {} on None and on a content that does not parse
TokenResponse(d) ==
    IF d.t = "null" THEN Ok([toks |-> << >>, parseFailed |-> FALSE])
    ELSE LET c == ContentOf(d)
         IN  IF ~c.ok THEN Raise
             ELSE LET p == ParseContent(c.v)
                  IN  CASE p.kind = "raise" -> Raise
                        [] p.kind = "fail" ->
                              Ok([toks |-> << >>, parseFailed |-> TRUE])
                        [] p.kind = "value" ->
                              LET out == TokensOf(p.v)
                              IN  IF out.ok
                                  THEN Ok([toks |-> out.v, parseFailed |-> FALSE])
                                  ELSE Raise

TokensContent ==
    /\ pc = "tokens_content"
    /\ LET r == TokenResponse(data)
           db == IF r.ok THEN MergeAll(tokens_db, r.v.toks, rel, runs) ELSE Raise
       IN  IF ~r.ok \/ ~db.ok
           THEN Abort
           ELSE /\ tokens_db' = db.v
                /\ merges' = merges \cup
                      {[file |-> rel, slug |-> r.v.toks[i][1]] : i \in DOMAIN r.v.toks}
                /\ FAILED_CALLS' =
                      IF r.v.parseFailed
                      THEN Append(FAILED_CALLS,
                                  ContentParseEntry("tokens_for_features_content_parse"))
                      ELSE FAILED_CALLS
                /\ pc' = "save_cache"
                /\ UNCHANGED <<no_cache, classify_cache, feature_map, locVars,
                               loaded, startCache, lookups, calls, exhausted,
                               flushed, lastStop>>
    /\ UNCHANGED envVars

(***************************************************************************)
(* main, lines 732-745: the flush after a file and the final persist       *)
(***************************************************************************)
\* a file whose write_text raised: untouched, or truncated
FailedWrite(file) == {file, CorruptFile}

\* main goes on to the next file, or to the final persist after the last
Advance ==
    /\ IF idx < NumFiles
       THEN /\ idx' = idx + 1
            /\ pc' = "file"
       ELSE /\ pc' = "final_cache"
            /\ idx' = idx
    /\ ResetLocals

\* a write of the flush raised: the handler at 738 skips the rest of the
\* flush; a write of the final persist raised: nothing handles it
WriteRaised(final) ==
    IF final
    THEN Abort
    ELSE /\ Advance
         /\ UNCHANGED <<memVars, runHist, lastStop>>

SaveCache(final) ==
    /\ pc = IF final THEN "final_cache" ELSE "save_cache"
    /\ \/ /\ diskCache' = JsonFile(classify_cache)
          /\ pc' = IF final THEN "final_tokens" ELSE "save_tokens"
          /\ UNCHANGED <<faults, memVars, locVars, runHist, lastStop>>
       \/ /\ CanFault
          /\ faults' = faults + 1
          /\ diskCache' \in FailedWrite(diskCache)
          /\ WriteRaised(final)
    /\ UNCHANGED <<fileBytes, diskTokens, diskFeatureMap, diskFailures, runs>>

\* save_tokens_db: the flat document; the raw db when building or writing
\* the flat document raised; an exception when that write raises too
SaveTokens(final) ==
    /\ pc = IF final THEN "final_tokens" ELSE "save_tokens"
    /\ LET flat == FlatDoc(tokens_db)
       IN  \/ /\ flat.ok
              /\ diskTokens' = JsonFile(flat.v)
              /\ pc' = IF final THEN "final_map" ELSE "save_map"
              /\ UNCHANGED <<faults, memVars, locVars, runHist, lastStop>>
           \/ /\ ~flat.ok \/ CanFault
              /\ faults' = IF flat.ok THEN faults + 1 ELSE faults
              /\ diskTokens' = JsonFile(JDict(tokens_db))
              /\ pc' = IF final THEN "final_map" ELSE "save_map"
              /\ UNCHANGED <<memVars, locVars, runHist, lastStop>>
           \/ /\ CanFault
              /\ faults' = faults + 1
              /\ diskTokens' \in FailedWrite(diskTokens)
              /\ WriteRaised(final)
    /\ UNCHANGED <<fileBytes, diskCache, diskFeatureMap, diskFailures, runs>>

SaveMap(final) ==
    /\ pc = IF final THEN "final_map" ELSE "save_map"
    /\ \/ /\ diskFeatureMap' = JsonFile(FeatureMapDoc(feature_map))
          /\ UNCHANGED <<faults, memVars, loaded, startCache, lookups, calls,
                         exhausted, merges, lastStop>>
          /\ IF final
             THEN /\ pc' = "report"
                  /\ UNCHANGED <<locVars, flushed>>
             ELSE /\ Advance
                  /\ flushed' = idx
       \/ /\ CanFault
          /\ faults' = faults + 1
          /\ diskFeatureMap' \in FailedWrite(diskFeatureMap)
          /\ WriteRaised(final)
    /\ UNCHANGED <<fileBytes, diskCache, diskTokens, diskFailures, runs>>

(***************************************************************************)
(* main, lines 747-762: the report                                         *)
(***************************************************************************)
Report ==
    /\ pc = "report"
    /\ diskFailures' = IF FAILED_CALLS # << >> THEN JsonFile(FAILED_CALLS)
                       ELSE diskFailures
    /\ pc' = "done"
    /\ lastStop' = NoStop
    /\ UNCHANGED <<fileBytes, diskCache, diskTokens, diskFeatureMap, runs, faults,
                   memVars, locVars, runHist>>

(***************************************************************************)
(* The specification                                                       *)
(***************************************************************************)
Next ==
    \/ \E f \in Range(Files), c \in Contents : EditFile(f, c)
    \/ Kill
    \/ \E nc \in BOOLEAN : StartRun(nc)
    \/ BeginFile
    \/ \E kind \in {"exception", "status", "body"} : RequestFails(kind)
    \/ \E body \in Bodies(http.phase) : RequestSucceeds(body)
    \/ ScoreContent
    \/ Select
    \/ TokensContent
    \/ \E final \in BOOLEAN : SaveCache(final)
    \/ \E final \in BOOLEAN : SaveTokens(final)
    \/ \E final \in BOOLEAN : SaveMap(final)
    \/ Report

Spec == Init /\ [][Next]_vars

(***************************************************************************)
(* The selection policy on its own: main is at the selection of its first  *)
(* file, with a score map drawn from the maps of at most MaxScored         *)
(* features.                                                               *)
(***************************************************************************)
ScoreValues == {20, 54, 55, 60, 90}
SelectSlugs == {FeatureSlugs[i] : i \in 1 .. MaxScored}

\* the score maps: every order of every set of slugs, every score
ScoreMaps ==
    { m \in UNION {[1 .. n -> SelectSlugs \X ScoreValues] : n \in 0 .. MaxScored} :
        \A i, j \in DOMAIN m : i # j => m[i][1] # m[j][1] }

ScoresOf(m) == JDict([i \in DOMAIN m |-> <<m[i][1], JNum(m[i][2])>>])

InitSelect ==
    /\ fileBytes = [f \in Range(Files) |-> IF f = Files[1] THEN <<"a">> ELSE <<"b">>]
    /\ diskCache = NoFile
    /\ diskTokens = NoFile
    /\ diskFeatureMap = NoFile
    /\ diskFailures = NoFile
    /\ runs = 1
    /\ faults = 0
    /\ pc = "select"
    /\ no_cache = FALSE
    /\ classify_cache = EmptyCache
    /\ tokens_db = EmptyDb
    /\ feature_map = InitialFeatureMap
    /\ FAILED_CALLS = << >>
    /\ idx = 1
    /\ file_hash = Sha1Bytes(<<"a">>)
    /\ primary = JStr("unknown")
    /\ \E m \in ScoreMaps : scores = ScoresOf(m)
    /\ candidates = << >>
    /\ http = NoCall
    /\ data = JNull
    /\ loaded = << >>
    /\ startCache = EmptyCache
    /\ lookups = [f \in Range(Files) |-> IF f = Files[1] THEN "miss" ELSE "none"]
    /\ calls = [f \in Range(Files) |-> IF f = Files[1] THEN {"score_features"} ELSE {}]
    /\ exhausted = {}
    /\ merges = {}
    /\ flushed = 0
    /\ lastStop = NoStop

NextSelect == Select

SpecSelect == InitSelect /\ [][NextSelect]_vars

(***************************************************************************)
(* merge_token_index as a function: two suggestion lists A and B for one   *)
(* feature and one file are merged into an empty index, A first.  data     *)
(* holds <<A, B>>, candidates the feature, merges the lists merged so far. *)
(***************************************************************************)
\* the variables no function specification draws, at rest
Quiet ==
    /\ fileBytes = [f \in Range(Files) |-> IF f = Files[1] THEN <<"a">> ELSE <<"b">>]
    /\ diskCache = NoFile
    /\ diskFeatureMap = NoFile
    /\ diskFailures = NoFile
    /\ faults = 0
    /\ no_cache = FALSE
    /\ classify_cache = EmptyCache
    /\ feature_map = InitialFeatureMap
    /\ FAILED_CALLS = << >>
    /\ file_hash = << >>
    /\ primary = JNull
    /\ http = NoCall
    /\ startCache = EmptyCache
    /\ lookups = [f \in Range(Files) |-> "none"]
    /\ calls = [f \in Range(Files) |-> {}]
    /\ exhausted = {}
    /\ flushed = 0
    /\ lastStop = NoStop

TokFoo == <<"f", "o", "o">>
MergeWeights == {10, 20, 30, 40, 80}

\* the suggestion lists: "foo", and "State" that the stop-list rejects
SuggestionLists ==
    UNION {[1 .. n -> [token : {TokFoo, TokState}, weight : MergeWeights]] :
              n \in 0 .. MaxSuggestions}

InitMerge ==
    /\ Quiet
    /\ diskTokens = NoFile
    /\ runs = 1
    /\ pc = "merge"
    /\ tokens_db = EmptyDb
    /\ idx = 1
    /\ scores = JNull
    /\ candidates \in {<<FeatureSlugs[1]>>, <<FeatureSlugs[2]>>}
    /\ data \in SuggestionLists \X SuggestionLists
    /\ loaded = << >>
    /\ merges = << >>

\* one call of merge_token_index, with the next list
ApplyMerge ==
    /\ pc = "merge"
    /\ Len(merges) < Len(data)
    /\ LET m == MergeTokenIndex(tokens_db, TAXONOMY_VERSION, LM_MODEL,
                                candidates[1], rel, data[Len(merges) + 1], runs)
       IN  /\ m.ok
           /\ tokens_db' = m.v
    /\ merges' = Append(merges, data[Len(merges) + 1])
    /\ UNCHANGED <<envVars, pc, no_cache, classify_cache, feature_map, FAILED_CALLS,
                   locVars, loaded, startCache, lookups, calls, exhausted, flushed,
                   lastStop>>

NextMerge == ApplyMerge

SpecMerge == InitMerge /\ [][NextMerge]_vars

(***************************************************************************)
(* The token index under its operations: load_tokens_db of the file on     *)
(* disk, merge_token_index of a suggestion list for a feature and a path,  *)
(* save_tokens_db.  pc names the operation applied last, merges counts the *)
(* operations, and candidates, idx and data hold the feature, the path     *)
(* (IndexPaths[idx]) and the suggestions of the last merge.  The index is  *)
(* read by top_tokens_for_feature when the documents are written, after    *)
(* the last save: candidates, idx and data then hold the feature, k and    *)
(* the tokens returned.                                                    *)
(***************************************************************************)
\* one path more than an example list holds
IndexPaths == <<"p1", "p2", "p3", "p4", "p5", "p6", "p7">>

TokModel == <<" ", "M", "o", "d", "e", "l">>

\* the suggestion lists of the merges, each for its feature: a token, a list
\* that is rejected whole, and tokens spelled like the keys of the snapshot
IndexSuggestions ==
    { [slug |-> FeatureSlugs[1], list |-> <<[token |-> TokFoo, weight |-> 80]>>],
      [slug |-> FeatureSlugs[1], list |-> <<[token |-> TokState, weight |-> 60],
                                            [token |-> TokX, weight |-> 60]>>],
      [slug |-> FeatureSlugs[1], list |-> <<[token |-> TokModel, weight |-> 60]>>],
      [slug |-> FeatureSlugs[2], list |-> <<[token |-> TokFoo, weight |-> 40],
                                            [token |-> K_features, weight |-> 60]>>],
      [slug |-> FeatureSlugs[2], list |-> <<[token |-> K_token_index, weight |-> 60]>>] }

\* the paths of the merges: one the files on disk list already, two new ones
MergePaths == {1, Len(IndexPaths) - 1, Len(IndexPaths)}

\* an entry as merge_token_index leaves it after one merge for FeatureSlugs[1]
EntryWith(examples) ==
    [global |-> [count |-> 1, weight_sum |-> FloatOf(DefaultWeight),
                 examples |-> examples, last_seen |-> 1],
     by_feature |-> (FeatureSlugs[1] :>
                        [count |-> 1, weight_sum |-> FloatOf(DefaultWeight)])]

\* the files load_tokens_db may find: none, one that is no JSON, the flat
\* shape (paths listed once, or repeated and more than an entry holds, or
\* under keys that are no valid token), the nested shape, the index shape
IndexFiles ==
    LET header == << <<K_taxonomy_version, JNum(TAXONOMY_VERSION)>>,
                     <<K_model, JStr(LM_MODEL)>> >>
    IN  { NoFile,
          CorruptFile,
          JsonFile(JDict(Append(header,
              <<TokFoo, JList(SubSeq(IndexPaths, 1, MaxExamples - 1))>>))),
          JsonFile(JDict(Append(header,
              <<TokFoo, JList(<<IndexPaths[1]>> \o IndexPaths)>>))),
          JsonFile(JDict(<< <<TokX, JList(<<IndexPaths[1]>>)>>,
                            <<TokState, JList(<<IndexPaths[2]>>)>>,
                            <<TokFooBar, JList(<<IndexPaths[1]>>)>> >>)),
          JsonFile(JDict(Append(header,
              <<K_features,
                JDict(<< <<FeatureSlugs[1],
                           JDict(<< <<"tokens", JList(<<JChars(TokFooBar),
                                                        JChars(TokState),
                                                        JChars(TokX),
                                                        JChars(TokSnap),
                                                        JChars(TokSnap)>>)>> >>)>> >>)>>))),
          JsonFile(JDict(Append(header,
              <<K_token_index,
                JDict(<< <<TokFoo, EntryWith(<<IndexPaths[1]>>)>> >>)>>))),
          JsonFile(JDict(Append(header,
              <<K_token_index,
                JDict(<< <<<<"s","t","a","t","e">>, EntryWith(<<IndexPaths[1]>>)>> >>)>>))) }

InitIndex ==
    /\ Quiet
    /\ diskTokens \in IndexFiles
    /\ runs = 1
    /\ pc = "index"
    /\ tokens_db = EmptyDb
    /\ idx = 0
    /\ scores = JNull
    /\ candidates = << >>
    /\ data = << >>
    /\ loaded = << >>
    /\ merges = 0

IndexStep(op) ==
    /\ pc \in {"index", "loaded", "merged", "saved"}
    /\ merges < MaxIndexSteps
    /\ merges' = merges + 1
    /\ pc' = op
    /\ UNCHANGED <<fileBytes, diskCache, diskFeatureMap, diskFailures, runs, faults,
                   no_cache, classify_cache, feature_map, FAILED_CALLS, file_hash,
                   primary, scores, http, loaded, startCache, lookups, calls,
                   exhausted, flushed, lastStop>>

\* tokens_db = load_tokens_db()
IndexLoad ==
    /\ IndexStep("loaded")
    /\ tokens_db' = LoadTokensDb(diskTokens, runs)
    /\ UNCHANGED <<diskTokens, idx, candidates, data>>

\* merge_token_index(tokens_db, TAXONOMY_VERSION, LM_MODEL, slug, path, toks);
\* an exception of the merge ends the run
IndexMerge(s, p) ==
    LET m == MergeTokenIndex(tokens_db, TAXONOMY_VERSION, LM_MODEL, s.slug,
                             IndexPaths[p], s.list, runs)
    IN  /\ IndexStep(IF m.ok THEN "merged" ELSE "aborted")
        /\ tokens_db' = IF m.ok THEN m.v ELSE tokens_db
        /\ candidates' = <<s.slug>>
        /\ idx' = p
        /\ data' = s.list
        /\ UNCHANGED diskTokens

\* save_tokens_db(tokens_db): the flat document, or the document as it is
\* when building the flat one raised
IndexSave ==
    /\ IndexStep("saved")
    /\ LET flat == FlatDoc(tokens_db)
       IN  diskTokens' = IF flat.ok THEN JsonFile(flat.v) ELSE JsonFile(JDict(tokens_db))
    /\ UNCHANGED <<tokens_db, idx, candidates, data>>

\* tokens = top_tokens_for_feature(tokens_db, slug, k)
IndexTop(slug, k) ==
    LET r == TopTokensForFeature(tokens_db, slug, k)
    IN  /\ IndexStep(IF r.ok THEN "ranked" ELSE "aborted")
        /\ candidates' = <<slug>>
        /\ idx' = k
        /\ data' = IF r.ok THEN r.v ELSE << >>
        /\ UNCHANGED <<diskTokens, tokens_db>>

NextIndex ==
    \/ IndexLoad
    \/ \E s \in IndexSuggestions, p \in MergePaths : IndexMerge(s, p)
    \/ IndexSave
    \/ \E i \in 1 .. 3, k \in 0 .. MaxTopK : IndexTop(FeatureSlugs[i], k)

SpecIndex == InitIndex /\ [][NextIndex]_vars

(***************************************************************************)
(* JSON recovery as a function: _extract_json_blob and json.loads on one   *)
(* answer.  data holds the answer, loaded its parts (the commentary before *)
(* the object, the object, the commentary after it, and whether the        *)
(* object is in a json fence), scores the outcome of the parse.            *)
(***************************************************************************)
\* the commentaries around the object: none, plain text, text with braces,
\* text with a fenced snippet of its own
Commentaries ==
    { << >>,
      <<Prose, Ws>>,
      <<Prose, LBrace, Prose, RBrace, Ws>>,
      <<Prose, Ws, Fence, Prose, Fence, Ws>> }

\* the objects of the answers
AnswerObjects == {JEmptyDict, ScoresOne, ScoresThree}

\* the object in a json fence, or bare
Wrapped(j, fenced) ==
    IF fenced THEN <<Fence, Lang, Ws, Json(j), Ws, Fence>> ELSE <<Json(j)>>

InitRecover ==
    /\ Quiet
    /\ diskTokens = NoFile
    /\ runs = 1
    /\ pc = "recover"
    /\ tokens_db = EmptyDb
    /\ idx = 1
    /\ candidates = << >>
    /\ merges = {}
    /\ scores = JNull
    /\ loaded \in [lead : Commentaries, obj : AnswerObjects, trail : Commentaries,
                   fenced : BOOLEAN]
    /\ data = JText(loaded.lead \o Wrapped(loaded.obj, loaded.fenced) \o
                    (IF loaded.trail = << >> THEN << >> ELSE <<Ws>> \o loaded.trail))

\* clean = _extract_json_blob(content); json.loads(clean)
Recover ==
    /\ pc = "recover"
    /\ pc' = "recovered"
    /\ scores' = ParseContent(data)
    /\ UNCHANGED <<envVars, memVars, idx, file_hash, primary, candidates, http, data,
                   runHist, lastStop>>

NextRecover == Recover

SpecRecover == InitRecover /\ [][NextRecover]_vars

(***************************************************************************)
(* The fingerprint of a file with a cached record: the first file was      *)
(* scored by an earlier run and its record is in the cache; one byte of    *)
(* the file is changed, then the loop reads the file and looks it up.      *)
(***************************************************************************)
FileByteValues == {"a", "b", "CR", "LF", "FF", "FE"}

ByteStrings == UNION {[1 .. n -> FileByteValues] : n \in 1 .. MaxFileLen}

InitFingerprint ==
    /\ fileBytes \in [Range(Files) -> ByteStrings]
    /\ fileBytes[Files[2]] = <<"b">>
    /\ diskCache = NoFile
    /\ diskTokens = NoFile
    /\ diskFeatureMap = NoFile
    /\ diskFailures = NoFile
    /\ runs = 2
    /\ faults = 0
    /\ pc = "edit"
    /\ no_cache = FALSE
    /\ classify_cache =
          [taxonomy_version |-> TAXONOMY_VERSION,
           files |-> (Files[1] :> [sha1 |-> Sha1Bytes(Utf8Encode(ReadText(fileBytes[Files[1]]))),
                                   primary |-> JStr("state"),
                                   scores |-> JDict(<< <<"state", JNum(80)>> >>)])]
    /\ tokens_db = EmptyDb
    /\ feature_map = InitialFeatureMap
    /\ FAILED_CALLS = << >>
    /\ idx = 1
    /\ file_hash = << >>
    /\ primary = JNull
    /\ scores = JNull
    /\ candidates = << >>
    /\ http = NoCall
    /\ data = JNull
    /\ loaded = << >>
    /\ startCache = classify_cache
    /\ lookups = [f \in Range(Files) |-> "none"]
    /\ calls = [f \in Range(Files) |-> {}]
    /\ exhausted = {}
    /\ merges = {}
    /\ flushed = 0
    /\ lastStop = NoStop

\* byte i of the first file is changed to b before the loop reads the file
ChangeByte(i, b) ==
    /\ pc = "edit"
    /\ i \in DOMAIN fileBytes[Files[1]]
    /\ b # fileBytes[Files[1]][i]
    /\ fileBytes' = [fileBytes EXCEPT ![Files[1]][i] = b]
    /\ pc' = "file"
    /\ UNCHANGED <<diskCache, diskTokens, diskFeatureMap, diskFailures, runs, faults,
                   memVars, locVars, runHist, lastStop>>

NextFingerprint ==
    \/ \E i \in 1 .. MaxFileLen, b \in FileByteValues : ChangeByte(i, b)
    \/ BeginFile

SpecFingerprint == InitFingerprint /\ [][NextFingerprint]_vars

(***************************************************************************)
(* The tallies of an index that starts empty: merge_token_index is called  *)
(* for the first file with one suggestion at a time, for either of two     *)
(* features.  merges counts the calls; candidates and data hold the        *)
(* feature and the suggestions of the last call.                           *)
(***************************************************************************)
\* the suggestion lists: "foo" or "State", with a weight
TallyLists == {<<s>> : s \in [token : {TokFoo, TokState}, weight : MergeWeights]}

InitTally ==
    /\ Quiet
    /\ diskTokens = NoFile
    /\ runs = 1
    /\ pc = "tally"
    /\ tokens_db = EmptyDb
    /\ idx = 1
    /\ scores = JNull
    /\ candidates = << >>
    /\ data = << >>
    /\ loaded = << >>
    /\ merges = 0

\* merge_token_index(tokens_db, TAXONOMY_VERSION, LM_MODEL, slug, rel, list)
TallyMerge(slug, list) ==
    /\ pc = "tally"
    /\ merges < MaxTallySteps
    /\ LET m == MergeTokenIndex(tokens_db, TAXONOMY_VERSION, LM_MODEL, slug, rel,
                                list, runs)
       IN  /\ m.ok
           /\ tokens_db' = m.v
    /\ merges' = merges + 1
    /\ candidates' = <<slug>>
    /\ data' = list
    /\ UNCHANGED <<envVars, pc, no_cache, classify_cache, feature_map, FAILED_CALLS,
                   idx, file_hash, primary, scores, http, loaded, startCache,
                   lookups, calls, exhausted, flushed, lastStop>>

NextTally == \E i \in 1 .. 2, list \in TallyLists : TallyMerge(FeatureSlugs[i], list)

SpecTally == InitTally /\ [][NextTally]_vars

(***************************************************************************)
(* What the snapshots on disk cover                                        *)
(***************************************************************************)
\* the paths with a record in the cache file
DiskCacheFiles ==
    IF diskCache.state = "json" /\ "files" \in DOMAIN diskCache.doc
    THEN DOMAIN diskCache.doc.files
    ELSE {}

\* the paths among the examples of an index document
PathsOfIndex(db) ==
    LET idxv == Get(db, K_token_index, JEmptyDict)
    IN  IF idxv.t # "dict" THEN {}
        ELSE UNION {Range(idxv.d[i][2].global.examples) : i \in DOMAIN idxv.d}

\* the paths the index file lists: those of the raw document when the file
\* is one, else those of the lists of the flat document
DiskIndexPaths ==
    IF diskTokens.state # "json" \/ diskTokens.doc.t # "dict" THEN {}
    ELSE LET raw == diskTokens.doc.d
         IN  IF HasKey(raw, K_token_index) THEN PathsOfIndex(raw)
             ELSE UNION {Range(raw[i][2].l) :
                            i \in {j \in DOMAIN raw : raw[j][2].t = "list"}}

\* the files whose processing step main has completed in this run
Processed ==
    IF pc \in {"save_cache", "save_tokens", "save_map", "final_cache",
               "final_tokens", "final_map", "report", "done"}
    THEN idx
    ELSE idx - 1

FirstFiles(n) == {Files[i] : i \in 1 .. n}

(***************************************************************************)
(* Claims                                                                  *)
(***************************************************************************)
\* C1: a file whose lookup was a hit gets no oracle call of any kind, neither
\* the scoring request nor the token request, and the primary and scores the
\* selection works on are the cached ones. The code violates it: the token
\* request is sent for the candidates of the cached scores.
C1_CacheHitMakesNoOracleCall ==
    /\ \A f \in Range(Files) : lookups[f] = "hit" => calls[f] = {}
    /\ (pc = "select" /\ lookups[rel] = "hit") =>
          /\ primary = startCache.files[rel].primary
          /\ scores = startCache.files[rel].scores

\* C2: no answer of the oracle makes the processing of a file raise: main
\* never ends on an exception of the steps between the gateway call and the
\* flush. The code violates it.
C2_NoOracleAnswerAbortsRun ==
    ~(pc = "aborted" /\ lastStop.by = "raise"
        /\ lastStop.at \in {"score_content", "select", "tokens_content"})

\* C3: when the run before was interrupted after the flush of file 1 and
\* before file 2, and the inputs are unchanged, the fresh run finds file 1 in
\* the cache, makes no oracle call for it, and scores only file 2. The code
\* violates it: the token request is sent for file 1.
C3_FreshRunReusesFlushedFile ==
    ( /\ lastStop.by = "kill" /\ lastStop.at = "file"
      /\ lastStop.idx = 2 /\ lastStop.flushed = 1
      /\ Running /\ ~no_cache
      /\ lookups[Files[2]] # "none" )
    => /\ lookups[Files[1]] = "hit"
       /\ calls[Files[1]] = {}
       /\ lookups[Files[2]] = "miss"
       /\ "score_features" \in calls[Files[2]]

\* C4 as stated: at every point after the processing step of file N where the
\* run can be interrupted, from the first write of the flush on, the cache and
\* the index on disk hold files 1..N, hold no file beyond N, and agree.
C4_DiskReflectsExactlyFirstN ==
    ( /\ Running
      /\ Processed >= 1
      /\ pc # "save_cache" )
    => /\ FirstFiles(Processed) \subseteq DiskCacheFiles
       /\ FirstFiles(Processed) \cap PathsOfIndex(tokens_db) \subseteq DiskIndexPaths
       /\ (DiskCacheFiles \cup DiskIndexPaths) \subseteq FirstFiles(Processed)

\* C4 amended: once the first write of the flush of file N is made the cache
\* file is the cache in memory and holds files 1..N; once the second is made
\* the index file lists the paths of the index in memory; after a flush that
\* made its three writes both hold until the next flush begins.
C4_FlushedFilesAreOnDisk ==
    /\ (Running /\ pc \in {"save_tokens", "save_map"}) =>
          /\ diskCache = JsonFile(classify_cache)
          /\ FirstFiles(idx) \subseteq DiskCacheFiles
    /\ ( \/ pc = "save_map"
         \/ (pc \in {"file", "http", "score_content", "select", "tokens_content"}
               /\ flushed >= 1 /\ idx = flushed + 1)
         \/ (pc = "final_cache" /\ flushed = NumFiles) ) =>
          /\ FirstFiles(Processed) \subseteq DiskCacheFiles
          /\ diskTokens.state = "json"
          /\ FirstFiles(Processed) \cap PathsOfIndex(tokens_db) \subseteq DiskIndexPaths

C4_Witness ==
    /\ pc = "file" /\ idx = 2 /\ flushed = 1
    /\ Files[1] \in DiskCacheFiles
    /\ Files[1] \in DiskIndexPaths

\* the ledger entries of a file's scoring requests
ScoringEntries(f) ==
    SelectSeq(FAILED_CALLS, LAMBDA e : e.file = f /\ e.phase = "score_features")

\* the run is complete, every request of the scoring call of f raised, and
\* the ledger holds nothing else
OnlyScoringOfFailed(f) ==
    /\ pc = "done"
    /\ <<f, "score_features">> \in exhausted
    /\ \A i \in DOMAIN FAILED_CALLS :
          /\ FAILED_CALLS[i].file = f
          /\ FAILED_CALLS[i].phase = "score_features"
          /\ FAILED_CALLS[i].status = "None"

\* the path is in an include list of the feature map file
AssignedOnDisk(g) ==
    /\ diskFeatureMap.state = "json"
    /\ \E s \in DOMAIN diskFeatureMap.doc.features :
          g \in Range(diskFeatureMap.doc.features[s])

\* C5 as stated: when every request of the scoring call of one file raised
\* and the calls of the other file succeeded, the ledger holds exactly one
\* entry for the scoring phase of the failing file.
C5_OneLedgerEntryForFailedScoring ==
    \A f \in Range(Files) : OnlyScoringOfFailed(f) => Len(ScoringEntries(f)) = 1

\* C5 amended: in that run the record of the failing file has primary
\* "unknown" in memory and on disk, the ledger holds one entry for each of its
\* 4 failed requests (2 attempts of 2 endpoints) and is written to the
\* failures file, and the other file is in the feature map file and, where
\* the index has tokens of it, in the index file.
C5_FailedScoringIsUnknownAndLogged ==
    \A f \in Range(Files) :
        OnlyScoringOfFailed(f) =>
            /\ classify_cache.files[f].primary = JStr("unknown")
            /\ diskCache = JsonFile(classify_cache)
            /\ Len(ScoringEntries(f)) = 4
            /\ diskFailures = JsonFile(FAILED_CALLS)
            /\ \A g \in Range(Files) \ {f} :
                  /\ AssignedOnDisk(g)
                  /\ g \in PathsOfIndex(tokens_db) => g \in DiskIndexPaths

C5_Witness ==
    /\ OnlyScoringOfFailed(Files[1])
    /\ AssignedOnDisk(Files[2])
    /\ Files[2] \in DiskIndexPaths

\* the requests of the current gateway call all failed, every attempt of
\* every endpoint
CallExhausted ==
    /\ Len(http.log) = 4
    /\ \A i \in DOMAIN http.log : http.log[i].outcome # "ok"

\* C6: a gateway call makes its requests in the order attempt 1 chat,
\* attempt 1 completions, attempt 2 chat, attempt 2 completions, at most 4;
\* it returns at the first request answered 200 with a parsable body; a
\* failed request moves on; and it returns the failure value None only after
\* all 4 have failed. The code violates the last part: a 200 answer whose
\* body is the JSON null is returned as None after one request.
C6_GatewaySchedule ==
    /\ Len(http.log) <= 4
    /\ \A i \in DOMAIN http.log :
          /\ http.log[i].attempt = ((i - 1) \div 2) + 1
          /\ http.log[i].url = Endpoints[((i - 1) % 2) + 1]
          /\ http.log[i].outcome = "ok" => (i = Len(http.log) /\ pc # "http")
    /\ pc = "http" => Len(http.log) < 4
    /\ (pc \in {"score_content", "tokens_content"} /\ data.t = "null") => CallExhausted

\* what the two calls return for an exhausted gateway call
C7_ExhaustedCallReturns ==
    /\ (pc = "score_content" /\ CallExhausted) =>
          /\ ScoreResponse(data).ok
          /\ ScoreResponse(data).v.resp =
                JDict(<< <<"scores", JEmptyDict>>, <<"primary", JStr("unknown")>>,
                         <<"confidence", JNum(0)>> >>)
    /\ (pc = "tokens_content" /\ CallExhausted) =>
          /\ TokenResponse(data).ok
          /\ TokenResponse(data).v.toks = << >>

\* the steps on a file one of whose gateway calls was exhausted: no merge,
\* and no token call after an exhausted scoring call
C7_NoMergeAfterExhaustion ==
    ( /\ Running
      /\ pc' \notin Stopped
      /\ idx' = idx
      /\ \E ph \in {"score_features", "tokens_for_features"} : <<rel, ph>> \in exhausted )
    => /\ tokens_db' = tokens_db
       /\ merges' = merges
       /\ <<rel, "score_features">> \in exhausted => calls'[rel] = {"score_features"}

\* C7: when every request of a gateway call has failed, the scoring call
\* returns the sentinel (empty scores, primary "unknown", confidence 0), the
\* token call returns the empty token map, and the index receives no merge
\* from that call.
C7_ExhaustedCallIsNeutral ==
    [] C7_ExhaustedCallReturns /\ [][C7_NoMergeAfterExhaustion]_vars

C7_Witness ==
    /\ pc = "save_cache"
    /\ <<rel, "score_features">> \in exhausted
    /\ scores = JEmptyDict
    /\ primary = JStr("unknown")
    /\ candidates = << >>

\* the records a lookup of this run can find: none under --no-cache
LoadedRecords ==
    IF ~no_cache /\ "files" \in DOMAIN loaded THEN loaded.files ELSE << >>

\* the cache file was written under another taxonomy version
VersionDiffers ==
    /\ ~no_cache
    /\ "taxonomy_version" \in DOMAIN loaded
    /\ loaded.taxonomy_version # TAXONOMY_VERSION

\* C8: the lookup of a path is a miss exactly when the loaded cache has no
\* record for the path, or the fingerprint of the record differs from the
\* current one, or the taxonomy version of the loaded cache differs from the
\* active one; in the last case the cache starts the run without any record
\* and every file of the run is scored again.
C8_MissExactlyWhen ==
    Running =>
       /\ \A f \in Range(Files) :
             lookups[f] # "none" =>
                (lookups[f] = "miss" <=>
                    \/ f \notin DOMAIN LoadedRecords
                    \/ LoadedRecords[f].sha1 # FileHash(f)
                    \/ VersionDiffers)
       /\ VersionDiffers =>
             /\ startCache.files = << >>
             /\ \A f \in Range(Files) :
                   lookups[f] # "none" =>
                      (lookups[f] = "miss" /\ "score_features" \in calls[f])

C8_Witness ==
    /\ Running
    /\ VersionDiffers
    /\ Files[1] \in DOMAIN LoadedRecords
    /\ LoadedRecords[Files[1]].sha1 = FileHash(Files[1])
    /\ lookups[Files[1]] = "miss"
    /\ "score_features" \in calls[Files[1]]

\* the selection has been made
PostSelect == pc \in {"http", "save_cache"} /\ scores.t = "dict"

Scored == Range(PairKeys(scores.d))
Selected == Range(candidates)
ScoreOfSlug(s) == Lookup(scores.d, s).n
AtOrAbove == {s \in Scored : ScoreOfSlug(s) >= 55}

BucketsOf(path) == {s \in DOMAIN feature_map : path \in Range(feature_map[s])}

\* after the selection of a file: an empty score map puts the file in the
\* bucket of its primary label alone and no token call is made; a score map
\* that is not empty puts it in the buckets of the selection
C11_AssignmentAfterSelect ==
    ( /\ pc \in {"http", "save_cache"}
      /\ pc = "http" => http.phase = "tokens_for_features"
      /\ scores.t = "dict" )
    => /\ scores.d = << >> =>
             /\ PrimaryKey(primary).ok
             /\ BucketsOf(rel) = {PrimaryKey(primary).v}
             /\ "tokens_for_features" \notin calls[rel]
       /\ scores.d # << >> => BucketsOf(rel) = Range(Candidates(scores.d))

\* the selection step on an empty score map assigns the file
C11_EmptyScoresAreAssigned ==
    (pc = "select" /\ scores = JEmptyDict /\ pc' # "killed")
    => /\ pc' = "save_cache"
       /\ Cardinality({s \in DOMAIN feature_map' : rel \in Range(feature_map'[s])}) = 1

\* C11: a file is assigned to its primary label alone ("unknown" when the
\* oracle gave none) exactly when its score map is empty; it is then in
\* exactly one bucket of the feature map and gets no token call; a score map
\* that is not empty is assigned by the selection alone. The code violates
\* it: a primary label that is a list or an object cannot be a key of the
\* feature map, and the file with the empty score map is assigned nowhere.
C11_PrimaryFallbackOnlyOnEmptyScores ==
    [] C11_AssignmentAfterSelect /\ [][C11_EmptyScoresAreAssigned]_vars

\* the entries of the index of a document, none when the index is no dict
EntriesOf(db) ==
    LET index == Get(db, K_token_index, JEmptyDict)
    IN  IF index.t = "dict" THEN index.d ELSE << >>

\* per token the counts, global and per feature
Counts(db) ==
    {<<e[1], e[2].global.count,
       [f \in DOMAIN e[2].by_feature |-> e[2].by_feature[f].count]>> :
        e \in Range(EntriesOf(db))}

\* per token the counts and the weight sums, global and per feature
Tallies(db) ==
    {<<e[1], e[2].global.count, e[2].global.weight_sum, e[2].by_feature>> :
        e \in Range(EntriesOf(db))}

\* the merges of the lists in turn into an empty index, as applied before
RECURSIVE MergedInTurn(_, _)
MergedInTurn(db, lists) ==
    IF lists = << >> THEN db
    ELSE MergedInTurn(MergeTokenIndex(db, TAXONOMY_VERSION, LM_MODEL, candidates[1],
                                      rel, lists[1], runs).v,
                      Tail(lists))

BothMerged == pc = "merge" /\ Len(merges) = 2
MergedBA == MergedInTurn(EmptyDb, <<data[2], data[1]>>)
MergedConcat == MergedInTurn(EmptyDb, <<data[1] \o data[2]>>)

\* foo/0.8 then foo/0.4
FooExample ==
    data = << <<[token |-> TokFoo, weight |-> 80]>>,
              <<[token |-> TokFoo, weight |-> 40]>> >>

\* two floats less than 2^-(3*LimbBits) apart
FloatNear(x, y) ==
    LET eps == [j \in DOMAIN FloatZero |-> IF j = 2 THEN 1 ELSE 0]
    IN  LimbsLeq(x, AddLimbs(y, eps, 0)) /\ LimbsLeq(y, AddLimbs(x, eps, 0))

\* the weight sums of two indexes with the same tokens are near each other
WeightSumsNear(db1, db2) ==
    \A e \in Range(EntriesOf(db1)) :
        LET o == Get(EntriesOf(db2), e[1], NewEntry)
        IN  /\ FloatNear(e[2].global.weight_sum, o.global.weight_sum)
            /\ \A f \in DOMAIN e[2].by_feature :
                   FloatNear(e[2].by_feature[f].weight_sum,
                             FeatureEntryOf(o.by_feature, f).weight_sum)

\* C12 as stated: merge(A) then merge(B), merge(B) then merge(A) and one merge
\* of A followed by B give the same count and weight_sum for every token,
\* globally and per feature; foo/0.8 then foo/0.4 gives count 2 and
\* weight_sum 1.2
C12_MergeOrderIndependent ==
    BothMerged =>
        /\ Tallies(tokens_db) = Tallies(MergedBA)
        /\ Tallies(tokens_db) = Tallies(MergedConcat)
        /\ FooExample =>
              Tallies(tokens_db) =
                  {<<TokFoo, 2, FloatOf(120), (candidates[1] :>
                         [count |-> 2, weight_sum |-> FloatOf(120)])>>}

\* C12: the counts are the same in the three orders; the weight sums of
\* merge(A) then merge(B) are those of one merge of A followed by B; with A
\* and B exchanged the weight sums are the same up to the rounding of the
\* float additions; foo/0.8 then foo/0.4 gives count 2 and the float
\* 0.8 + 0.4, which is not the float 1.2
C12_MergeAdditiveUpToRounding ==
    BothMerged =>
        /\ Counts(tokens_db) = Counts(MergedBA)
        /\ Tallies(tokens_db) = Tallies(MergedConcat)
        /\ WeightSumsNear(tokens_db, MergedBA)
        /\ FooExample =>
              /\ Tallies(tokens_db) =
                    {<<TokFoo, 2, FloatAdd(FloatOf(80), FloatOf(40)), (candidates[1] :>
                         [count |-> 2, weight_sum |-> FloatAdd(FloatOf(80), FloatOf(40))])>>}
              /\ FloatAdd(FloatOf(80), FloatOf(40)) # FloatOf(120)

\* both lists are merged, they hold the same token, and the order of the
\* lists shows in the weight sums
C12_Witness ==
    /\ BothMerged
    /\ Len(data[1]) > 0 /\ Len(data[2]) > 0
    /\ Counts(tokens_db) # {}
    /\ Tallies(tokens_db) # Tallies(MergedBA)

\* the keys of the index of a document, none when the index is no dict
IndexKeys(db) ==
    LET index == Get(db, K_token_index, JEmptyDict)
    IN  IF index.t = "dict" THEN Range(PairKeys(index.d)) ELSE {}

\* every suggestion of the list is rejected by _valid_token
AllRejected(list) == \A i \in DOMAIN list : ~ValidToken(NormToken(list[i].token))

\* no key of the index is shorter than 2 characters after normalization or
\* on the stop-list
C13_KeysAreValid ==
    \A k \in IndexKeys(tokens_db) :
        /\ Len(NormToken(k)) >= MinTokenLen
        /\ k \notin GENERIC_TOKENS

\* a merge whose suggestions are all rejected leaves the entries as they were
C13_RejectedMergeKeepsEntries ==
    (pc' = "merged" /\ AllRejected(data'))
    => Get(tokens_db', K_token_index, JEmptyDict) = Get(tokens_db, K_token_index, JEmptyDict)

\* C13: after any sequence of loads of any on-disk shape and of merges no key
\* of the index is a token shorter than 2 characters after normalization or a
\* member of the stop-list, and a merge whose suggestions are all rejected
\* leaves the index entries unchanged. The code violates it: a file in the
\* index shape is returned by the load as it is, keys unchecked.
C13_IndexHoldsValidTokensOnly ==
    [] C13_KeysAreValid /\ [][C13_RejectedMergeKeepsEntries]_vars

\* a sequence without a repeated element
NoDuplicates(q) == \A i, j \in DOMAIN q : q[i] = q[j] => i = j

\* every example list holds at most 6 paths, none twice
C14_ExamplesBounded ==
    \A e \in Range(EntriesOf(tokens_db)) :
        /\ Len(e[2].global.examples) <= MaxExamples
        /\ NoDuplicates(e[2].global.examples)

\* a merge keeps every entry; the example list of an entry is the one before
\* the merge, with the path of the merge appended when the merge names the
\* token, the path is absent and the list is below the cap
C14_MergeAppendsOnly ==
    pc' = "merged" =>
        /\ Range(PairKeys(EntriesOf(tokens_db))) \subseteq Range(PairKeys(EntriesOf(tokens_db')))
        /\ \A e \in Range(EntriesOf(tokens_db')) :
              LET old == Get(EntriesOf(tokens_db), e[1], NewEntry).global.examples
                  path == IndexPaths[idx']
                  named == /\ ValidToken(e[1])
                           /\ \E i \in DOMAIN data' : NormToken(data'[i].token) = e[1]
              IN  e[2].global.examples =
                      IF named /\ path \notin Range(old) /\ Len(old) < MaxExamples
                      THEN Append(old, path)
                      ELSE old

\* C14: after any sequence of merges every example list has at most 6 paths
\* and no duplicate, and is in first-seen order: a merge appends the path only
\* when it is absent and the list is below the cap, and never removes or
\* reorders an example (the merge skips the tokens that are not valid)
C14_ExamplesCappedInFirstSeenOrder ==
    [] C14_ExamplesBounded /\ [][C14_MergeAppendsOnly]_vars

\* a merge named a token whose list was full, with a path the list lacks
C14_Witness ==
    /\ pc = "merged"
    /\ \E e \in Range(EntriesOf(tokens_db)) :
          /\ ValidToken(e[1])
          /\ \E i \in DOMAIN data : NormToken(data[i].token) = e[1]
          /\ Len(e[2].global.examples) = MaxExamples
          /\ IndexPaths[idx] \notin Range(e[2].global.examples)

\* an index as merges build it: a dict of valid tokens, each with an example
BuiltByMerges(db) ==
    /\ HasKey(db, K_token_index)
    /\ Lookup(db, K_token_index).t = "dict"
    /\ \A e \in Range(EntriesOf(db)) :
          ValidToken(e[1]) /\ e[2].global.examples # << >>

\* the token and the example list of every entry
ExamplesOf(db) == {<<e[1], e[2].global.examples>> : e \in Range(EntriesOf(db))}

\* the index written by a save is loaded back with its tokens and their
\* example lists, as a dict a merge can work on
C15_SaveThenLoadKeepsExamples ==
    (pc' = "saved" /\ BuiltByMerges(tokens_db))
    => LET back == LoadTokensDb(diskTokens', runs)
       IN  /\ BuiltByMerges(back)
           /\ ExamplesOf(back) = ExamplesOf(tokens_db)

\* C15: for any index built by merges, writing the index to disk and loading
\* it back gives the same tokens with the same example lists, whatever the
\* tokens are, and the loaded index never makes a later merge crash. The code
\* violates it for a token spelled like a key of the snapshot.
C15_IndexRoundTrip == [][C15_SaveThenLoadKeepsExamples]_vars

\* the positions of the writes of the flush and of the final persist
WritePositions ==
    {"save_cache", "save_tokens", "save_map", "final_cache", "final_tokens", "final_map"}

\* a step of a write, failed or not, that is no kill of the process: the run
\* is not aborted and the cache and the index in memory are as before
C16_WriteStepKeepsRunning ==
    (pc \in WritePositions /\ pc' # "killed")
    => /\ pc' # "aborted"
       /\ classify_cache' = classify_cache
       /\ tokens_db' = tokens_db

\* C16: a failure of any write of the cache, the index or the feature map, in
\* the flush after a file or in the final persist, does not abort the run and
\* leaves the cache and the index in memory unchanged. The code violates it:
\* the writes of the final persist are outside any handler.
C16_WriteFailureDoesNotAbort == [][C16_WriteStepKeepsRunning]_vars

\* the tokens of the index with an entry for the feature
TokensOfFeature(slug) ==
    {e[1] : e \in {x \in Range(EntriesOf(tokens_db)) : slug \in DOMAIN x[2].by_feature}}

\* count * (0.5 + 0.5 * mean weight) of a token for the feature
ScoreFor(tok, slug) == Score(Lookup(EntriesOf(tokens_db), tok).by_feature[slug])

\* C17: top_tokens(slug, k) returns at most k tokens, each with an entry for
\* the feature, in the order of non-increasing count * (0.5 + 0.5 *
\* mean_weight) of the feature's count and weight_sum, and no token of the
\* feature left out has a score strictly above that of a returned one
C17_TopTokensAreTheBestK ==
    pc = "ranked" =>
        LET slug == candidates[1]
        IN  /\ Len(data) <= idx
            /\ Range(data) \subseteq TokensOfFeature(slug)
            /\ \A i, j \in DOMAIN data :
                  i < j => ~FloatLess(ScoreFor(data[i], slug), ScoreFor(data[j], slug))
            /\ \A t \in TokensOfFeature(slug) \ Range(data) :
                  \A i \in DOMAIN data :
                      ~FloatLess(ScoreFor(data[i], slug), ScoreFor(t, slug))

\* k tokens are returned, in the order of two scores that differ, and a
\* token of the feature with a lower score is left out
C17_Witness ==
    /\ pc = "ranked"
    /\ idx = MaxTopK
    /\ Len(data) = idx
    /\ FloatLess(ScoreFor(data[2], candidates[1]), ScoreFor(data[1], candidates[1]))
    /\ \E t \in TokensOfFeature(candidates[1]) \ Range(data) :
          FloatLess(ScoreFor(t, candidates[1]), ScoreFor(data[2], candidates[1]))

\* C18: JSON recovery takes the content of the first fenced block, else the
\* text from the first "{" to the last "}", else the raw text; so an object
\* in a json fence with commentary before and after it is parsed to the same
\* object as the bare object, also when the commentary holds braces or
\* fences of its own. The code violates it: a fenced snippet in the
\* commentary before the object is the first fenced block.
C18_FencedObjectParsesAsBare ==
    (pc = "recovered" /\ loaded.fenced)
    => /\ scores.kind = "value"
       /\ scores = ParseContent(Bare(loaded.obj))
       /\ scores.v = loaded.obj

\* C19: for a file with a cached record, the change of one byte of its
\* content changes the fingerprint the run computes, so the lookup is a miss
\* and the file is scored again. The code violates it: the fingerprint is
\* taken over the decoded text, not over the bytes.
C19_ByteChangeForcesScoring ==
    pc \in {"select", "http"} =>
        /\ file_hash # startCache.files[Files[1]].sha1
        /\ lookups[Files[1]] = "miss"
        /\ "score_features" \in calls[Files[1]]

\* the gateway call returned a body whose content is text that holds no
\* JSON that parses
ContentHoldsNoJson ==
    /\ pc \in {"score_content", "tokens_content"}
    /\ data.t = "dict"
    /\ ContentOf(data).ok
    /\ ContentOf(data).v.t = "text"
    /\ ParseContent(ContentOf(data).v).kind = "fail"

\* the step of the call on such a body: no request is sent, the result is
\* the empty one, one entry is appended to the ledger
C20_ParseFailureStep ==
    (ContentHoldsNoJson /\ pc' # "killed")
    => /\ http' = http
       /\ calls' = calls
       /\ pc' # "http"
       /\ IF pc = "score_content"
          THEN /\ FAILED_CALLS' =
                     Append(FAILED_CALLS, ContentParseEntry("score_features_content_parse"))
               /\ primary' = JStr("unknown")
               /\ scores' = JEmptyDict
          ELSE /\ FAILED_CALLS' =
                     Append(FAILED_CALLS,
                            ContentParseEntry("tokens_for_features_content_parse"))
               /\ tokens_db' = tokens_db
               /\ merges' = merges

\* C20: when a request succeeds at the transport level but the text of the
\* answer holds no JSON that parses, the call sends no further request,
\* returns the empty result and appends exactly one entry to the failure
\* ledger, with phase "<phase>_content_parse", for that file
C20_ContentParseFailureIsLoggedOnce == [][C20_ParseFailureStep]_vars

\* a scoring call has just ended on a content that did not parse
C20_Witness ==
    /\ pc = "select"
    /\ lookups[rel] = "miss"
    /\ FAILED_CALLS # << >>
    /\ FAILED_CALLS[Len(FAILED_CALLS)] = ContentParseEntry("score_features_content_parse")
    /\ Len(http.log) = 1
    /\ scores = JEmptyDict

\* the suggestions of a list that the merge accepts under the token
Accepted(list, tok) ==
    {i \in DOMAIN list : ValidToken(tok) /\ NormToken(list[i].token) = tok}

\* a step after the load keeps every token entry and every per-feature
\* entry, and lowers no count
C21_StepKeepsEntries ==
    pc' # "loaded" =>
        \A e \in Range(EntriesOf(tokens_db)) :
            /\ HasKey(EntriesOf(tokens_db'), e[1])
            /\ LET new == Lookup(EntriesOf(tokens_db'), e[1])
               IN  /\ new.global.count >= e[2].global.count
                   /\ DOMAIN e[2].by_feature \subseteq DOMAIN new.by_feature
                   /\ \A f \in DOMAIN e[2].by_feature :
                          new.by_feature[f].count >= e[2].by_feature[f].count

\* a merge raises the global count of a token and its count for the merged
\* feature by the number of accepted suggestions that name it, and no other
\* count
C21_MergeCountsAccepted ==
    pc' = "merged" =>
        \A e \in Range(EntriesOf(tokens_db')) :
            LET old == Get(EntriesOf(tokens_db), e[1], NewEntry)
                n == Cardinality(Accepted(data', e[1]))
                slug == candidates'[1]
            IN  /\ e[2].global.count = old.global.count + n
                /\ n > 0 => e[2].by_feature[slug].count =
                                FeatureEntryOf(old.by_feature, slug).count + n
                /\ n = 0 => e[2].by_feature = old.by_feature
                /\ \A f \in DOMAIN e[2].by_feature \ {slug} :
                       /\ f \in DOMAIN old.by_feature
                       /\ e[2].by_feature[f] = old.by_feature[f]

\* C21: once the index is loaded no step removes a token entry or a
\* per-feature entry, every global count and every per-feature count never
\* decreases across the merges that follow, and each accepted suggestion
\* raises the global count and the count of the merged feature by exactly 1
C21_CountsNeverDecrease ==
    [][C21_StepKeepsEntries /\ C21_MergeCountsAccepted]_vars

\* a merge for one feature raised the counts of a token that had an entry
\* for another feature
C21_Witness ==
    /\ pc = "merged"
    /\ \E e \in Range(EntriesOf(tokens_db)) :
          /\ Accepted(data, e[1]) # {}
          /\ e[2].global.count >= 2
          /\ Cardinality(DOMAIN e[2].by_feature) >= 2

\* the calls of a file: the scoring call on a miss only, the token call on
\* a miss only and after the scoring call has returned; no call for a file
\* the loop has not come to
C22_CallsInOrder ==
    \A i \in DOMAIN Files :
        LET f == Files[i]
        IN  /\ calls[f] # {} => i <= idx
            /\ "score_features" \in calls[f] => lookups[f] = "miss"
            /\ "tokens_for_features" \in calls[f] =>
                  /\ lookups[f] = "miss"
                  /\ "score_features" \in calls[f]
                  /\ (i = idx /\ pc = "http") => http.phase = "tokens_for_features"

\* the loop comes to the next file from the flush of the file before, and
\* the flush begins after the cache and the index are updated
C22_NextFileAfterFlush ==
    /\ (Running /\ idx' = idx + 1) =>
          pc \in {"save_cache", "save_tokens", "save_map"}
    /\ (pc' = "save_cache" /\ pc # "save_cache") =>
          /\ pc \in {"select", "tokens_content"}
          /\ lookups[rel] = "miss" => rel \in DOMAIN classify_cache'.files

\* C22: files are processed one at a time in traversal order: the scoring
\* call of a file is made on a miss only and returns before the token call
\* begins, the token call is made for a miss only, the updates of the cache
\* and the index precede the flush of the file, and no request for the next
\* file is sent before the flush of the file was attempted. The code
\* violates it: the token call is made for a hit too.
C22_OneFileAtATime == [] C22_CallsInOrder /\ [][C22_NextFileAfterFlush]_vars

\* the paths the feature map holds
AssignedPaths == UNION {Range(feature_map[s]) : s \in DOMAIN feature_map}

\* C23: at every flush of a run the feature map is built from the files
\* processed in this run only: every path in it has a record in the cache,
\* every file processed so far is in at least one bucket, no bucket lists a
\* path twice, and no path of a run before that this run has not processed
\* is in it
C23_MapHoldsThisRunsFiles ==
    pc \in WritePositions =>
        /\ AssignedPaths \subseteq DOMAIN classify_cache.files
        /\ AssignedPaths \subseteq FirstFiles(Processed)
        /\ \A i \in 1 .. Processed : BucketsOf(Files[i]) # {}
        /\ \A s \in DOMAIN feature_map : NoDuplicates(feature_map[s])

\* the flush of the first file of a second run, with a feature map on disk
\* that lists the second file
C23_Witness ==
    /\ pc = "save_map"
    /\ runs = 2
    /\ idx = 1
    /\ BucketsOf(Files[1]) # {}
    /\ diskFeatureMap.state = "json"
    /\ \E s \in DOMAIN diskFeatureMap.doc.features :
           Files[2] \in Range(diskFeatureMap.doc.features[s])

\* the slugs of the taxonomy, and the "unknown" bucket
TaxonomyKeys == Range(FeatureSlugs) \cup {"unknown"}

\* C24: whatever the oracle returns as keys of the score map or as primary,
\* every key of the feature map and of the feature map on disk is a slug of
\* the taxonomy or "unknown". The code violates it: the assignment makes a
\* bucket for any key the oracle names.
C24_BucketsAreTaxonomySlugs ==
    /\ DOMAIN feature_map \subseteq TaxonomyKeys
    /\ diskFeatureMap.state = "json" =>
          DOMAIN diskFeatureMap.doc.features \subseteq TaxonomyKeys

\* the merges of the answer of a token call make or raise a per-feature
\* entry for the selected features of the file only
C25_MergesUnderSelected ==
    (pc = "tokens_content" /\ pc' = "save_cache") =>
        /\ \A m \in merges' \ merges : m.file = rel /\ m.slug \in Range(candidates)
        /\ \A e \in Range(EntriesOf(tokens_db')) :
              LET old == Get(EntriesOf(tokens_db), e[1], NewEntry)
              IN  \A f \in DOMAIN e[2].by_feature :
                      e[2].by_feature[f] # FeatureEntryOf(old.by_feature, f)
                      => f \in Range(candidates)

\* C25: for every file, tokens are merged into the index under the feature
\* slugs selected for the file and requested in the token call only:
\* whatever slugs the answer holds, no per-feature entry is made or raised
\* for a slug outside the selected set. The code violates it: every slug of
\* the answer is merged.
C25_TokensMergedForSelectedOnly == [][C25_MergesUnderSelected]_vars

\* C26: with --no-cache the run starts from an empty cache and an empty
\* index: every file gets a scoring call, and the index, in memory and as
\* this run writes it, holds no token entry before a merge of this run. The
\* code violates it: the index file of the run before is loaded whatever
\* the option.
C26_NoCacheStartsEmpty ==
    (Running /\ no_cache) =>
        /\ startCache.files = << >>
        /\ \A f \in Range(Files) : lookups[f] # "hit"
        /\ merges = {} =>
              /\ EntriesOf(tokens_db) = << >>
              /\ flushed > 0 => DiskIndexPaths = {}

\* the record main stores for a scoring call that degraded
DegradedRecord(f) ==
    [sha1 |-> FileHash(f), primary |-> JStr("unknown"), scores |-> JEmptyDict]

\* the scoring call of the file degraded: the gateway call returned None, or
\* an answer whose text holds no JSON that parses
ScoringDegraded ==
    /\ pc = "score_content"
    /\ data.t = "null" \/ ContentHoldsNoJson

\* the step after a degraded scoring call stores the record of the file
C27_DegradedScoringIsStored ==
    (ScoringDegraded /\ pc' # "killed")
    => /\ pc' = "select"
       /\ rel \in DOMAIN classify_cache'.files
       /\ classify_cache'.files[rel] = DegradedRecord(rel)

\* the run found in the cache file, written under the active taxonomy
\* version, the record of a degraded scoring call of the file as it is now
DegradedRecordLoaded(f) ==
    /\ Running
    /\ "files" \in DOMAIN loaded
    /\ "taxonomy_version" \in DOMAIN loaded
    /\ loaded.taxonomy_version = TAXONOMY_VERSION
    /\ f \in DOMAIN loaded.files
    /\ loaded.files[f] = DegradedRecord(f)

\* the file is looked up as a hit, gets no call, and is in "unknown" alone
ReusedAsUnknown(i) ==
    LET f == Files[i]
    IN  /\ lookups[f] # "none" => lookups[f] = "hit"
        /\ calls[f] = {}
        /\ i <= Processed => BucketsOf(f) = {"unknown"}

\* C27 as stated: a degraded scoring call stores a record with the current
\* fingerprint, primary "unknown" and empty scores, and every later run over
\* the unchanged file under the same taxonomy version takes the record as a
\* hit, makes no scoring call and keeps the file in "unknown"
C27_DegradedRecordIsReused ==
    /\ [][C27_DegradedScoringIsStored]_vars
    /\ [] (\A i \in DOMAIN Files : DegradedRecordLoaded(Files[i]) => ReusedAsUnknown(i))

\* C27: a degraded scoring call stores a record with the current
\* fingerprint, primary "unknown" and empty scores; a later run started
\* without --no-cache that finds the record in the cache file, over the
\* unchanged file and under the same taxonomy version, takes the record as a
\* hit, makes no scoring call and keeps the file in "unknown"; a run started
\* with --no-cache discards the record
C27_DegradedRecordIsReusedUnlessNoCache ==
    /\ [][C27_DegradedScoringIsStored]_vars
    /\ [] (\A i \in DOMAIN Files :
              (DegradedRecordLoaded(Files[i]) /\ ~no_cache) => ReusedAsUnknown(i))
    /\ [] (\A i \in DOMAIN Files :
              (Running /\ no_cache) => lookups[Files[i]] # "hit")

\* a run without --no-cache has looked up and assigned a file whose record
\* of a degraded scoring call it found in the cache file
C27_Witness ==
    /\ ~no_cache
    /\ DegradedRecordLoaded(Files[1])
    /\ lookups[Files[1]] = "hit"
    /\ Processed >= 1
    /\ BucketsOf(Files[1]) = {"unknown"}
    /\ FAILED_CALLS = << >>

\* the sum of the per-feature counts of an entry
RECURSIVE CountSum(_, _)
CountSum(by_feature, slugs) ==
    IF slugs = {} THEN 0
    ELSE LET f == CHOOSE x \in slugs : TRUE
         IN  by_feature[f].count + CountSum(by_feature, slugs \ {f})

\* the sum of the per-feature weight sums of an entry, without rounding
RECURSIVE WeightSum(_, _)
WeightSum(by_feature, slugs) ==
    IF slugs = {} THEN FloatZero
    ELSE LET f == CHOOSE x \in slugs : TRUE
         IN  AddLimbs(by_feature[f].weight_sum, WeightSum(by_feature, slugs \ {f}), 0)

\* the float sums of the per-feature weight sums, the features in any order
RECURSIVE FloatSums(_, _)
FloatSums(by_feature, slugs) ==
    IF slugs = {} THEN {FloatZero}
    ELSE UNION {{FloatAdd(x, by_feature[f].weight_sum) :
                    x \in FloatSums(by_feature, slugs \ {f})} : f \in slugs}

\* C28 as stated: starting from an empty index, after any sequence of merges
\* the global count of every entry is the sum of its per-feature counts,
\* its global weight_sum the sum of its per-feature weight_sums (the sum
\* without rounding, or the float sum in some order of the features), its
\* global count at least 1 and its example list not empty
C28_GlobalIsSumOfFeatures ==
    \A e \in Range(EntriesOf(tokens_db)) :
        LET by == e[2].by_feature
        IN  /\ e[2].global.count = CountSum(by, DOMAIN by)
            /\ \/ e[2].global.weight_sum = WeightSum(by, DOMAIN by)
               \/ e[2].global.weight_sum \in FloatSums(by, DOMAIN by)
            /\ e[2].global.count >= 1
            /\ e[2].global.examples # << >>

\* C28: starting from an empty index, after any sequence of merges the
\* global count of every entry is the sum of its per-feature counts, its
\* global count is at least 1 and its example list is not empty, so that
\* save writes every entry; its global weight_sum is the sum of its
\* per-feature weight_sums up to the rounding of the float additions, and
\* equal to it when the entry has one feature
C28_GlobalIsSumUpToRounding ==
    \A e \in Range(EntriesOf(tokens_db)) :
        LET by == e[2].by_feature
        IN  /\ e[2].global.count = CountSum(by, DOMAIN by)
            /\ FloatNear(e[2].global.weight_sum, WeightSum(by, DOMAIN by))
            /\ Cardinality(DOMAIN by) = 1 =>
                  e[2].global.weight_sum \in FloatSums(by, DOMAIN by)
            /\ e[2].global.count >= 1
            /\ e[2].global.examples # << >>
            /\ FlatDoc(tokens_db).ok
            /\ HasKey(FlatDoc(tokens_db).v.d, e[1])

\* three merges for two features left an entry whose global weight_sum is
\* no sum of its per-feature weight_sums
C28_Witness ==
    /\ pc = "tally"
    /\ merges = 3
    /\ \E e \in Range(EntriesOf(tokens_db)) :
          /\ Cardinality(DOMAIN e[2].by_feature) = 2
          /\ e[2].global.count = 3
          /\ e[2].global.weight_sum # WeightSum(e[2].by_feature, DOMAIN e[2].by_feature)
          /\ e[2].global.weight_sum \notin FloatSums(e[2].by_feature, DOMAIN e[2].by_feature)

====
